---- MODULE Spec2Model ----
(***************************************************************************)
(* NovaNet: the client's cookie manager and tab manager (the browser UI    *)
(* script) and the server's /ads/proxy relay and request hook.             *)
(***************************************************************************)
EXTENDS Integers, Sequences, FiniteSets, TLC

VARIABLES
    \* ---- CookieManager (client) ----
    cookieStore,      \* this.cookieStore: domain -> entry (a Map or a plain object)
    storage,          \* localStorage item 'novanet_cookies'
    now,              \* the wall clock read by new Date()
    ret,              \* outcome of the last CookieManager call
    saveFailed        \* the last localStorage.setItem threw (caught in saveCookies)

VARIABLES
    \* ---- TabManager and navigation (client) ----
    tabs,                 \* tabManager.tabs: tab id -> tab data (and its DOM nodes)
    tabOrder,             \* insertion order of the keys of tabs (Map iteration order)
    currentTabId,         \* tabManager.currentTabId
    tabCounter,           \* tabManager.tabCounter
    history,              \* tabManager.history: tab id -> list of URLs
    currentHistoryIndex,  \* tabManager.currentHistoryIndex: tab id -> index (0-based)
    navs,                 \* the navigateToUrl calls made so far, each with its closure state
    errorText,            \* the text showError last put in #nn-error
    msgCount,             \* urlChange messages delivered so far (bounds the run)
    rt                    \* observer of one goBack ; goForward round trip

VARIABLES
    \* ---- the server ----
    req,        \* the request last handled: event, URL path, query parameter u, upstream behaviour
    reply,      \* the response to it: status, headers, body, and the headers the request listener set
    fetched,    \* the handler called fetch
    upstream,   \* the upstream response the reply was made from
    conn        \* what the upgrade listener did with the socket

VARIABLES
    view,       \* what getCookiesForDomain or getCookieString last returned
    last        \* observer: the tab operation performed last and the state before it

cookieVars == <<cookieStore, storage, now, ret, saveFailed>>

tabVars == <<tabs, tabOrder, currentTabId, tabCounter, history, currentHistoryIndex,
             navs, errorText, msgCount, rt>>

relayVars == <<req, reply, fetched, upstream, conn>>

vars == <<cookieVars, tabVars, relayVars, view, last>>

(***************************************************************************)
(* Bounds                                                                  *)
(***************************************************************************)
\* clock ticks in a run of the cookie manager
MaxTime == 2
\* tabs created + navigateToUrl calls + urlChange messages in a run of the tab manager
MaxOps == 4
\* navigateToUrl calls in a run of the retry and reload callbacks
MaxRetryNavs == 1
\* attributes of the tag of a relayed document
MaxAttrs == 2

(***************************************************************************)
(* CookieManager                                                           *)
(***************************************************************************)
Domains == {"a.com", "b.com"}
Names == {"sid", "t"}
Values == {"v1", "v2"}

\* a JavaScript undefined in a string-valued slot
Undef == "undefined"
\* a JavaScript undefined in the expires slot; a date is <<t>>
NoDate == << >>

\* the options argument of setCookie
OptionSet ==
    { [path |-> Undef, expires |-> NoDate, secure |-> FALSE, httpOnly |-> FALSE, sameSite |-> Undef],
      [path |-> "/p", expires |-> <<1>>, secure |-> TRUE, httpOnly |-> TRUE, sameSite |-> "Strict"],
      [path |-> Undef, expires |-> <<2>>, secure |-> FALSE, httpOnly |-> FALSE, sameSite |-> Undef] }

\* x || dflt on a string slot
OrElse(x, dflt) == IF x = Undef THEN dflt ELSE x

\* an object with no own property: what JSON.stringify makes of a Map
EmptyObj == [n \in {} |-> 0]

\* new Map()
NewMap == [kind |-> "Map", cookies |-> EmptyObj]

\* the cookie object setCookie stores
CookieOf(domain, value, options) ==
    [value |-> value, domain |-> domain,
     path |-> OrElse(options.path, "/"),
     expires |-> options.expires,
     secure |-> options.secure,
     httpOnly |-> options.httpOnly,
     sameSite |-> OrElse(options.sameSite, "Lax")]

\* JSON.stringify(Object.fromEntries(this.cookieStore)): a Map value has no
\* enumerable own property and serialises as {}; a plain object as itself
Stringify(store) ==
    [d \in DOMAIN store |->
        IF store[d].kind = "Map" THEN EmptyObj ELSE store[d].cookies]

\* new Map(Object.entries(JSON.parse(stored))): every value is a plain object
ParseEntries(obj) ==
    [d \in DOMAIN obj |-> [kind |-> "Object", cookies |-> obj[d]]]

NoItem == [kind |-> "none", obj |-> EmptyObj]
InvalidJSON == [kind |-> "invalid", obj |-> EmptyObj]
\* a local storage whose getItem throws
Unreadable == [kind |-> "throws", obj |-> EmptyObj]
JSONText(obj) == [kind |-> "json", obj |-> obj]

\* loadCookies on a store that the constructor has just set to new Map()
LoadCookies(st) ==
    IF st.kind = "json" THEN ParseEntries(st.obj) ELSE EmptyObj

\* saveCookies: setItem either stores the text or throws (caught, warned)
SaveCookies(store, ok) ==
    /\ storage' = IF ok THEN JSONText(Stringify(store)) ELSE storage
    /\ saveFailed' = ~ok

Void == [kind |-> "void", val |-> Undef]
Null == [kind |-> "null", val |-> Undef]
Threw == [kind |-> "throw", val |-> "TypeError"]
Returned(v) == [kind |-> "value", val |-> v]

\* the expiry test that takes a cookie without expires for an expired one
Expired_Mutant(cookie) == cookie.expires = NoDate \/ now > cookie.expires[1]

\* cookie.expires && new Date() > new Date(cookie.expires)
Expired(cookie) == cookie.expires # NoDate /\ now > cookie.expires[1]

\* domainCookies.set(name, cookie) on a Map
MapSet(m, name, cookie) ==
    [kind |-> "Map",
     cookies |-> [n \in DOMAIN m.cookies \cup {name} |->
                    IF n = name THEN cookie ELSE m.cookies[n]]]

\* domainCookies.delete(name) on a Map
MapDelete(m, name) ==
    [kind |-> "Map",
     cookies |-> [n \in DOMAIN m.cookies \ {name} |-> m.cookies[n]]]

\* a store that files the entry under every domain it holds
StoreSet_Mutant(store, domain, entry) == [d \in DOMAIN store \cup {domain} |-> entry]

\* this.cookieStore.set(domain, entry)
StoreSet(store, domain, entry) ==
    [d \in DOMAIN store \cup {domain} |-> IF d = domain THEN entry ELSE store[d]]

SetCookie(domain, name, value, options, ok) ==
    LET s1 == IF domain \in DOMAIN cookieStore THEN cookieStore
              ELSE StoreSet(cookieStore, domain, NewMap)
        domainCookies == s1[domain]
    IN  IF domainCookies.kind # "Map"
        THEN \* domainCookies.set is not a function: the has() branch changed nothing
             /\ ret' = Threw
             /\ UNCHANGED <<cookieStore, storage, now, saveFailed>>
        ELSE LET s2 == StoreSet(s1, domain,
                          MapSet(domainCookies, name, CookieOf(domain, value, options)))
             IN  /\ cookieStore' = s2
                 /\ SaveCookies(s2, ok)
                 /\ ret' = Void
                 /\ UNCHANGED now

GetCookie(domain, name, ok) ==
    IF domain \notin DOMAIN cookieStore
    THEN ret' = Null /\ UNCHANGED <<cookieStore, storage, now, saveFailed>>
    ELSE LET domainCookies == cookieStore[domain] IN
         IF domainCookies.kind # "Map"
         THEN ret' = Threw /\ UNCHANGED <<cookieStore, storage, now, saveFailed>>
         ELSE IF name \notin DOMAIN domainCookies.cookies
         THEN ret' = Null /\ UNCHANGED <<cookieStore, storage, now, saveFailed>>
         ELSE IF Expired(domainCookies.cookies[name])
         THEN LET s2 == StoreSet(cookieStore, domain, MapDelete(domainCookies, name))
              IN  /\ cookieStore' = s2
                  /\ SaveCookies(s2, ok)
                  /\ ret' = Null
                  /\ UNCHANGED now
         ELSE /\ ret' = Returned(domainCookies.cookies[name].value)
              /\ UNCHANGED <<cookieStore, storage, now, saveFailed>>

DeleteCookie(domain, name, ok) ==
    IF domain \notin DOMAIN cookieStore
    THEN ret' = Void /\ UNCHANGED <<cookieStore, storage, now, saveFailed>>
    ELSE LET domainCookies == cookieStore[domain] IN
         IF domainCookies.kind # "Map"
         THEN ret' = Threw /\ UNCHANGED <<cookieStore, storage, now, saveFailed>>
         ELSE LET s2 == StoreSet(cookieStore, domain, MapDelete(domainCookies, name))
              IN  /\ cookieStore' = s2
                  /\ SaveCookies(s2, ok)
                  /\ ret' = Void
                  /\ UNCHANGED now

ClearAllCookies(ok) ==
    /\ cookieStore' = EmptyObj
    /\ SaveCookies(EmptyObj, ok)
    /\ ret' = Void
    /\ UNCHANGED now

\* a constructor whose loadCookies has no try block
NewCookieManager_Mutant ==
    /\ cookieStore' = LoadCookies(storage)
    /\ ret' = IF storage.kind = "json" \/ storage.kind = "none" THEN Void ELSE Threw
    /\ UNCHANGED <<storage, now, saveFailed>>

\* a page load: const cookieManager = new CookieManager()
NewCookieManager ==
    /\ cookieStore' = LoadCookies(storage)
    /\ ret' = Void
    /\ UNCHANGED <<storage, now, saveFailed>>

Tick ==
    /\ now < MaxTime
    /\ now' = now + 1
    /\ UNCHANGED <<cookieStore, storage, ret, saveFailed>>

InitCookie ==
    /\ storage \in {NoItem, InvalidJSON, JSONText([d \in {"a.com"} |-> EmptyObj])}
    /\ cookieStore = LoadCookies(storage)
    /\ now = 0
    /\ ret = Void
    /\ saveFailed = FALSE

NextCookie ==
    \/ \E d \in Domains, n \in Names, v \in Values, o \in OptionSet, ok \in BOOLEAN :
          SetCookie(d, n, v, o, ok) /\ UNCHANGED <<tabVars, relayVars, view, last>>
    \/ \E d \in Domains, n \in Names, ok \in BOOLEAN :
          GetCookie(d, n, ok) /\ UNCHANGED <<tabVars, relayVars, view, last>>
    \/ \E d \in Domains, n \in Names, ok \in BOOLEAN :
          DeleteCookie(d, n, ok) /\ UNCHANGED <<tabVars, relayVars, view, last>>
    \/ \E ok \in BOOLEAN : ClearAllCookies(ok) /\ UNCHANGED <<tabVars, relayVars, view, last>>
    \/ NewCookieManager /\ UNCHANGED <<tabVars, relayVars, view, last>>
    \/ Tick /\ UNCHANGED <<tabVars, relayVars, view, last>>

(***************************************************************************)
(* TabManager and navigation                                               *)
(***************************************************************************)
Urls == {"https://example.org/", "https://instagram.com/"}

\* socialMediaSites.some(site => domain.includes(site)) for the URLs above
IsSocialMedia(url) == url = "https://instagram.com/"

\* tab.url of a tab that shows the welcome screen
NullUrl == "null"

\* an identifier that does not follow the counter
TabIdOf_Mutant(n) == "tab-1"

\* `tab-${this.tabCounter++}`
TabIdOf(n) ==
    CASE n = 1 -> "tab-1" [] n = 2 -> "tab-2" [] n = 3 -> "tab-3"
      [] n = 4 -> "tab-4" [] n = 5 -> "tab-5" [] OTHER -> "tab-6"

\* const maxRetries = 3
maxRetries == 3

\* no handler installed on an iframe
NoNav == 0

Min(a, b) == IF a < b THEN a ELSE b
Max(a, b) == IF a > b THEN a ELSE b

\* the entry createTab stores in tabs, with the state of the tab's DOM nodes:
\* whether its panel holds an iframe, whether that iframe was given a src, and
\* which navigateToUrl call installed its onload / onerror handler
TabData(title, url) ==
    [title |-> title, url |-> url, loading |-> FALSE,
     iframe |-> (url # NullUrl), src |-> FALSE, onload |-> NoNav, onerror |-> NoNav]

\* Map.set that writes the value under every key
MapPut_Mutant(m, k, v) == [x \in DOMAIN m \cup {k} |-> v]

\* the keys left after a delete, in reverse insertion order
SeqRemove_Mutant(s, k) ==
    LET r == SelectSeq(s, LAMBDA x : x # k)
    IN  [i \in 1..Len(r) |-> r[Len(r) + 1 - i]]

MapPut(m, k, v) == [x \in DOMAIN m \cup {k} |-> IF x = k THEN v ELSE m[x]]
MapRemove(m, k) == [x \in DOMAIN m \ {k} |-> m[x]]
SeqRemove(s, k) == SelectSeq(s, LAMBDA x : x # k)

\* an update of the URL of whichever tab is current
UpdateTabUrl_Mutant(tb, tabId, url) ==
    IF currentTabId \in DOMAIN tb THEN [tb EXCEPT ![currentTabId].url = url] ELSE tb

\* updateTabUrl / updateTabTitle / tab.loading = b: nothing for a tab not in tabs
UpdateTabUrl(tb, tabId, url) ==
    IF tabId \in DOMAIN tb THEN [tb EXCEPT ![tabId].url = url] ELSE tb
UpdateTabTitle(tb, tabId, title) ==
    IF tabId \in DOMAIN tb THEN [tb EXCEPT ![tabId].title = title] ELSE tb
SetLoading(tb, tabId, b) ==
    IF tabId \in DOMAIN tb THEN [tb EXCEPT ![tabId].loading = b] ELSE tb

\* history[i] of a JavaScript array: undefined outside 0..length-1
At(h, i) == IF i >= 0 /\ i < Len(h) THEN h[i + 1] ELSE Undef

\* a splice that removes nothing
SpliceKeep_Mutant(h, start) == h

\* history.splice(start): the elements kept
SpliceKeep(h, start) ==
    LET s == IF start < 0 THEN Max(Len(h) + start, 0) ELSE Min(start, Len(h))
    IN  SubSeq(h, 1, s)

\* addToHistory(tabId, url) on the pair hi = [h |-> history, i |-> currentHistoryIndex]
AddToHistory(hi, tabId, url) ==
    LET h0 == IF tabId \in DOMAIN hi.h THEN hi.h ELSE MapPut(hi.h, tabId, << >>)
        i0 == IF tabId \in DOMAIN hi.h THEN hi.i ELSE MapPut(hi.i, tabId, -1)
        currentIndex == i0[tabId]
        list == Append(SpliceKeep(h0[tabId], currentIndex + 1), url)
    IN  [h |-> [h0 EXCEPT ![tabId] = list],
         i |-> [i0 EXCEPT ![tabId] = Len(list) - 1]]

\* switchToTab that never assigns currentTabId
SwitchTarget_Mutant(tb, cur, tabId) == cur

\* switchToTab(tabId): the tab's DOM nodes exist exactly while it is in tabs
SwitchTarget(tb, cur, tabId) == IF tabId \in DOMAIN tb THEN tabId ELSE cur

\* the closure of one navigateToUrl call
NewNav(target, url) ==
    [target |-> target, url |-> url, pc |-> "awaitSW",
     connectionRetries |-> 0, listening |-> FALSE,
     timeoutArmed |-> FALSE, monitorOn |-> FALSE, attempts |-> 0, reloads |-> 0]

Pending(n) == navs[n].pc \in {"awaitSW", "connecting", "retryWait"}

RtIdle == [phase |-> "idle", tab |-> "home", hist |-> << >>, idx |-> -1, nav |-> NoNav]

\* createTab(url, title), the part that changes state
CreateTab(url, title) ==
    LET tabId == TabIdOf(tabCounter) IN
    /\ tabCounter' = tabCounter + 1
    /\ history' = MapPut(history, tabId, << >>)
    /\ currentHistoryIndex' = MapPut(currentHistoryIndex, tabId, -1)
    /\ tabs' = MapPut(tabs, tabId, TabData(title, url))
    /\ tabOrder' = IF tabId \in DOMAIN tabs THEN tabOrder ELSE Append(tabOrder, tabId)
    /\ currentTabId' = SwitchTarget(tabs', currentTabId, tabId)

CreateNewTab ==
    /\ CreateTab(NullUrl, "New Tab")
    /\ rt' = RtIdle
    /\ UNCHANGED <<navs, errorText, msgCount>>

\* a click on the tab element of tab tabId
SwitchToTab(tabId) ==
    /\ tabId \in DOMAIN tabs
    /\ currentTabId' = SwitchTarget(tabs, currentTabId, tabId)
    /\ rt' = RtIdle
    /\ UNCHANGED <<tabs, tabOrder, tabCounter, history, currentHistoryIndex,
                   navs, errorText, msgCount>>

\* closeTab with the test this.tabs.size < 1
CloseTab_Mutant(tabId) ==
    /\ tabId \in DOMAIN tabs
    /\ rt' = RtIdle
    /\ IF Cardinality(DOMAIN tabs) < 1
       THEN UNCHANGED <<tabs, tabOrder, currentTabId, history, currentHistoryIndex>>
       ELSE /\ tabs' = MapRemove(tabs, tabId)
            /\ tabOrder' = SeqRemove(tabOrder, tabId)
            /\ history' = MapRemove(history, tabId)
            /\ currentHistoryIndex' = MapRemove(currentHistoryIndex, tabId)
            /\ currentTabId' = IF currentTabId = tabId /\ tabOrder' # << >>
                               THEN SwitchTarget(tabs', currentTabId, tabOrder'[1])
                               ELSE currentTabId
    /\ UNCHANGED <<tabCounter, navs, errorText, msgCount>>

\* closeTab(event, tabId), called for a tab that has a tab element
CloseTab(tabId) ==
    /\ tabId \in DOMAIN tabs
    /\ rt' = RtIdle
    /\ IF Cardinality(DOMAIN tabs) <= 1
       THEN UNCHANGED <<tabs, tabOrder, currentTabId, history, currentHistoryIndex>>
       ELSE /\ tabs' = MapRemove(tabs, tabId)
            /\ tabOrder' = SeqRemove(tabOrder, tabId)
            /\ history' = MapRemove(history, tabId)
            /\ currentHistoryIndex' = MapRemove(currentHistoryIndex, tabId)
            /\ currentTabId' = IF currentTabId = tabId
                               THEN SwitchTarget(tabs', currentTabId, tabOrder'[1])
                               ELSE currentTabId
    /\ UNCHANGED <<tabCounter, navs, errorText, msgCount>>

\* navigateToUrl(url, tabId) up to its first await: the call is recorded with
\* its target fixed, registerSW() is pending
StartNav(nv, target, url) == Append(nv, NewNav(target, url))

\* navigateTo without the home branch
NavigateTo_Mutant(url) ==
    /\ rt' = RtIdle
    /\ navs' = StartNav(navs, currentTabId, url)
    /\ UNCHANGED <<tabs, tabOrder, currentTabId, tabCounter, history,
                   currentHistoryIndex, errorText, msgCount>>

\* the form's submit handler with a non-empty address: navigateTo(url)
NavigateTo(url) ==
    /\ rt' = RtIdle
    /\ IF currentTabId = "home"
       THEN /\ CreateTab(url, "Loading...")
            /\ navs' = StartNav(navs, TabIdOf(tabCounter), url)
       ELSE /\ navs' = StartNav(navs, currentTabId, url)
            /\ UNCHANGED <<tabs, tabOrder, currentTabId, tabCounter, history,
                           currentHistoryIndex>>
    /\ UNCHANGED <<errorText, msgCount>>

\* goBack with the test currentIndex >= 0
CanGoBack_Mutant(currentIndex) == currentIndex >= 0

\* goBack's test: currentIndex > 0
CanGoBack(currentIndex) == currentIndex > 0

GoBack ==
    /\ currentTabId \in DOMAIN currentHistoryIndex
    /\ LET currentIndex == currentHistoryIndex[currentTabId] IN
       IF CanGoBack(currentIndex)
       THEN LET newIndex == currentIndex - 1
                url == At(history[currentTabId], newIndex)
            IN  /\ currentHistoryIndex' =
                      [currentHistoryIndex EXCEPT ![currentTabId] = newIndex]
                /\ navs' = StartNav(navs, currentTabId, url)
                /\ rt' = IF \A n \in 1..Len(navs) : ~Pending(n)
                         THEN [phase |-> "back", tab |-> currentTabId,
                               hist |-> history[currentTabId], idx |-> currentIndex,
                               nav |-> Len(navs) + 1]
                         ELSE RtIdle
       ELSE /\ rt' = RtIdle
            /\ UNCHANGED <<currentHistoryIndex, navs>>
    /\ UNCHANGED <<tabs, tabOrder, currentTabId, tabCounter, history, errorText, msgCount>>

\* goForward with the test currentIndex < history.length
CanGoForward_Mutant(currentIndex, len) == currentIndex < len

\* goForward's test: currentIndex < history.length - 1
CanGoForward(currentIndex, len) == currentIndex < len - 1

GoForward ==
    /\ currentTabId \in DOMAIN currentHistoryIndex
    /\ LET currentIndex == currentHistoryIndex[currentTabId] IN
       IF CanGoForward(currentIndex, Len(history[currentTabId]))
       THEN LET newIndex == currentIndex + 1
                url == At(history[currentTabId], newIndex)
            IN  /\ currentHistoryIndex' =
                      [currentHistoryIndex EXCEPT ![currentTabId] = newIndex]
                /\ navs' = StartNav(navs, currentTabId, url)
                /\ rt' = IF rt.phase = "backDone" /\ rt.tab = currentTabId
                         THEN [rt EXCEPT !.phase = "fwd", !.nav = Len(navs) + 1]
                         ELSE RtIdle
       ELSE /\ rt' = IF rt.phase = "backDone" /\ rt.tab = currentTabId
                     THEN [rt EXCEPT !.phase = "done"]
                     ELSE RtIdle
            /\ UNCHANGED <<currentHistoryIndex, navs>>
    /\ UNCHANGED <<tabs, tabOrder, currentTabId, tabCounter, history, errorText, msgCount>>

Refresh ==
    /\ rt' = RtIdle
    /\ IF currentTabId \in DOMAIN tabs /\ tabs[currentTabId].url # NullUrl
       THEN navs' = StartNav(navs, currentTabId, tabs[currentTabId].url)
       ELSE UNCHANGED navs
    /\ UNCHANGED <<tabs, tabOrder, currentTabId, tabCounter, history,
                   currentHistoryIndex, errorText, msgCount>>

\* navigateToUrl whose catch block shows the error and does not return
RegisterSWDone_Mutant(n, ok) ==
    /\ n \in 1..Len(navs)
    /\ navs[n].pc = "awaitSW"
    /\ LET targetTabId == navs[n].target
           url == navs[n].url
           hi == AddToHistory([h |-> history, i |-> currentHistoryIndex], targetTabId, url)
           t1 == SetLoading(UpdateTabTitle(UpdateTabUrl(tabs, targetTabId, url),
                                           targetTabId, "Loading..."),
                            targetTabId, TRUE)
       IN  /\ errorText' = IF ok THEN errorText ELSE "Failed to register service worker."
           /\ history' = hi.h
           /\ currentHistoryIndex' = hi.i
           /\ IF targetTabId \in DOMAIN tabs
              THEN /\ tabs' = [t1 EXCEPT ![targetTabId].iframe = TRUE,
                                         ![targetTabId].onload = n]
                   /\ navs' = [navs EXCEPT ![n].pc = IF ok THEN "connecting" ELSE "swFailed",
                                           ![n].listening = TRUE,
                                           ![n].attempts = 1]
                   /\ rt' = IF rt.nav = n THEN rt ELSE RtIdle
              ELSE /\ tabs' = t1
                   /\ navs' = [navs EXCEPT ![n].pc = "crashed"]
                   /\ rt' = RtIdle
    /\ UNCHANGED <<tabOrder, currentTabId, tabCounter, msgCount>>

\* navigateToUrl resumes after await registerSW(): the rejection branch, or the
\* body down to the call of establishConnection(), which stops at its own await
RegisterSWDone(n, ok) ==
    /\ n \in 1..Len(navs)
    /\ navs[n].pc = "awaitSW"
    /\ LET targetTabId == navs[n].target
           url == navs[n].url
       IN
       IF ~ok
       THEN /\ errorText' = "Failed to register service worker."
            /\ navs' = [navs EXCEPT ![n].pc = "swFailed"]
            /\ rt' = RtIdle
            /\ UNCHANGED <<tabs, history, currentHistoryIndex>>
       ELSE LET hi == AddToHistory([h |-> history, i |-> currentHistoryIndex],
                                   targetTabId, url)
                t1 == SetLoading(UpdateTabTitle(UpdateTabUrl(tabs, targetTabId, url),
                                                targetTabId, "Loading..."),
                                 targetTabId, TRUE)
            IN  /\ history' = hi.h
                /\ currentHistoryIndex' = hi.i
                /\ IF targetTabId \in DOMAIN tabs
                   THEN \* the iframe is found or created; onload and the message
                        \* listener are installed; establishConnection() is called
                        /\ tabs' = [t1 EXCEPT ![targetTabId].iframe = TRUE,
                                              ![targetTabId].onload = n]
                        /\ navs' = [navs EXCEPT ![n].pc = "connecting",
                                                ![n].listening = TRUE,
                                                ![n].attempts = 1]
                        /\ rt' = IF rt.nav = n THEN rt ELSE RtIdle
                   ELSE \* no panel, no iframe: iframe.onload = ... throws a TypeError
                        /\ tabs' = t1
                        /\ navs' = [navs EXCEPT ![n].pc = "crashed"]
                        /\ rt' = RtIdle
                /\ UNCHANGED errorText
    /\ UNCHANGED <<tabOrder, currentTabId, tabCounter, msgCount>>

\* the retry test with <= for <
CanRetry_Mutant(connectionRetries) == connectionRetries <= maxRetries

\* the catch block's test in establishConnection, and the tests of the reloads
CanRetry(connectionRetries) == connectionRetries < maxRetries

\* establishConnection resumes after its awaits on the transport
EstablishConnectionDone(n, ok) ==
    /\ n \in 1..Len(navs)
    /\ navs[n].pc = "connecting"
    /\ LET targetTabId == navs[n].target IN
       IF ok
       THEN /\ navs' = [navs EXCEPT ![n].pc = "srcSet",
                                    ![n].monitorOn = IsSocialMedia(navs[n].url)]
            /\ tabs' = IF targetTabId \in DOMAIN tabs
                       THEN [tabs EXCEPT ![targetTabId].src = TRUE] ELSE tabs
            /\ rt' = IF rt.nav = n /\ rt.phase = "back" THEN [rt EXCEPT !.phase = "backDone"]
                     ELSE IF rt.nav = n /\ rt.phase = "fwd" THEN [rt EXCEPT !.phase = "done"]
                     ELSE RtIdle
            /\ UNCHANGED errorText
       ELSE /\ rt' = RtIdle
            /\ UNCHANGED tabs
            /\ IF CanRetry(navs[n].connectionRetries)
               THEN /\ navs' = [navs EXCEPT
                          ![n].connectionRetries = navs[n].connectionRetries + 1,
                          ![n].reloads = navs[n].reloads + 1,
                          ![n].pc = "retryWait"]
                    /\ UNCHANGED errorText
               ELSE /\ navs' = [navs EXCEPT ![n].pc = "failed"]
                    /\ errorText' = "Connection failed. Please try again."
    /\ UNCHANGED <<tabOrder, currentTabId, tabCounter, history, currentHistoryIndex, msgCount>>

\* setTimeout(establishConnection, 2000) fires
RetryTimer(n) ==
    /\ n \in 1..Len(navs)
    /\ navs[n].pc = "retryWait"
    /\ navs' = [navs EXCEPT ![n].pc = "connecting", ![n].attempts = navs[n].attempts + 1]
    /\ rt' = RtIdle
    /\ UNCHANGED <<tabs, tabOrder, currentTabId, tabCounter, history,
                   currentHistoryIndex, errorText, msgCount>>

DocTitles == {"", "Page"}

\* the iframe of tab tabId fires 'load': the load listeners registered by
\* earlier onload runs clear their timeouts and the connection monitors, and
\* the installed onload handler runs (it arms a new load timeout and installs
\* onerror)
IframeLoad(tabId, docTitle) ==
    /\ tabId \in DOMAIN tabs
    /\ tabs[tabId].iframe /\ tabs[tabId].src
    /\ tabs[tabId].onload # NoNav
    /\ LET n == tabs[tabId].onload
           title == IF docTitle = "" THEN navs[n].url ELSE docTitle
       IN  /\ tabs' = [SetLoading(UpdateTabTitle(tabs, tabId, title), tabId, FALSE)
                          EXCEPT ![tabId].onerror = n]
           /\ navs' = [m \in 1..Len(navs) |->
                          IF navs[m].target = tabId /\ navs[m].listening
                          THEN [navs[m] EXCEPT !.timeoutArmed = (m = n),
                                               !.monitorOn = FALSE]
                          ELSE navs[m]]
    /\ rt' = RtIdle
    /\ UNCHANGED <<tabOrder, currentTabId, tabCounter, history, currentHistoryIndex,
                   errorText, msgCount>>

\* one guarded retry: if (connectionRetries < maxRetries) { connectionRetries++; reload }
\* else showError(message) (message = "" where the code has no else branch)
RetryOrGiveUp(n, message) ==
    IF CanRetry(navs[n].connectionRetries)
    THEN /\ navs' = [navs EXCEPT
               ![n].connectionRetries = navs[n].connectionRetries + 1,
               ![n].reloads = navs[n].reloads + 1,
               ![n].timeoutArmed = FALSE]
         /\ UNCHANGED errorText
    ELSE /\ navs' = [navs EXCEPT ![n].timeoutArmed = FALSE]
         /\ errorText' = IF message = "" THEN errorText ELSE message

\* the iframe of tab tabId fires 'error': iframe.onerror
IframeError(tabId) ==
    /\ tabId \in DOMAIN tabs
    /\ tabs[tabId].iframe /\ tabs[tabId].src
    /\ tabs[tabId].onerror # NoNav
    /\ LET n == tabs[tabId].onerror IN
       IF CanRetry(navs[n].connectionRetries)
       THEN /\ navs' = [navs EXCEPT
                  ![n].connectionRetries = navs[n].connectionRetries + 1,
                  ![n].reloads = navs[n].reloads + 1]
            /\ UNCHANGED errorText
       ELSE /\ errorText' = "Connection failed after multiple attempts. Please try again."
            /\ UNCHANGED navs
    /\ rt' = RtIdle
    /\ UNCHANGED <<tabs, tabOrder, currentTabId, tabCounter, history,
                   currentHistoryIndex, msgCount>>

\* the 30 second loadTimeout of call n fires while the document is not complete
LoadTimeout(n) ==
    /\ n \in 1..Len(navs)
    /\ navs[n].timeoutArmed
    /\ navs[n].target \in DOMAIN tabs
    /\ RetryOrGiveUp(n, "Page took too long to load. Please try again.")
    /\ rt' = RtIdle
    /\ UNCHANGED <<tabs, tabOrder, currentTabId, tabCounter, history,
                   currentHistoryIndex, msgCount>>

\* the connectionMonitor of call n (social media sites) finds the document
\* still loading after its 10 second wait
ConnectionMonitor(n) ==
    /\ n \in 1..Len(navs)
    /\ navs[n].monitorOn
    /\ navs[n].target \in DOMAIN tabs
    /\ IF CanRetry(navs[n].connectionRetries)
       THEN navs' = [navs EXCEPT
                ![n].connectionRetries = navs[n].connectionRetries + 1,
                ![n].reloads = navs[n].reloads + 1]
       ELSE UNCHANGED navs
    /\ rt' = RtIdle
    /\ UNCHANGED <<tabs, tabOrder, currentTabId, tabCounter, history,
                   currentHistoryIndex, errorText, msgCount>>

\* addToHistory run once by each of k listeners
RECURSIVE AddToHistoryTimes(_, _, _, _)
AddToHistoryTimes(hi, tabId, url, k) ==
    IF k = 0 THEN hi ELSE AddToHistoryTimes(AddToHistory(hi, tabId, url), tabId, url, k - 1)

\* the window 'message' listeners whose iframe is that of tab tabId
Listeners(tabId) == {n \in 1..Len(navs) : navs[n].target = tabId /\ navs[n].listening}

\* the script injected into the iframe of tab tabId posts one urlChange
\* message: every listener registered for that iframe handles it
UrlChange(tabId, newUrl, newTitle) ==
    /\ tabId \in DOMAIN tabs
    /\ tabs[tabId].iframe /\ tabs[tabId].onerror # NoNav
    /\ LET k == Cardinality(Listeners(tabId))
           title == IF newTitle = "" THEN "Loading..." ELSE newTitle
           hi == AddToHistoryTimes([h |-> history, i |-> currentHistoryIndex],
                                   tabId, newUrl, k)
       IN  /\ tabs' = UpdateTabTitle(UpdateTabUrl(tabs, tabId, newUrl), tabId, title)
           /\ history' = hi.h
           /\ currentHistoryIndex' = hi.i
    /\ msgCount' = msgCount + 1
    /\ rt' = RtIdle
    /\ UNCHANGED <<tabOrder, currentTabId, tabCounter, navs, errorText>>

\* what a run has used of its budget, and what navigateTo(url) would add
Used == (tabCounter - 1) + Len(navs) + msgCount
NavCost == IF currentTabId = "home" THEN 2 ELSE 1

\* whether goBack / goForward / refresh would call navigateToUrl now
BackStarts == currentTabId \in DOMAIN currentHistoryIndex
              /\ CanGoBack(currentHistoryIndex[currentTabId])
ForwardStarts == currentTabId \in DOMAIN currentHistoryIndex
                 /\ CanGoForward(currentHistoryIndex[currentTabId], Len(history[currentTabId]))
RefreshStarts == currentTabId \in DOMAIN tabs /\ tabs[currentTabId].url # NullUrl

TabIds == {"home"} \cup {TabIdOf(n) : n \in 1..MaxOps}
NavIds == 1..MaxOps

InitTabs ==
    /\ tabs = [t \in {"home"} |-> TabData("Home", NullUrl)]
    /\ tabOrder = <<"home">>
    /\ currentTabId = "home"
    /\ tabCounter = 1
    /\ history = [t \in {"home"} |-> << >>]
    /\ currentHistoryIndex = [t \in {"home"} |-> -1]
    /\ navs = << >>
    /\ errorText = ""
    /\ msgCount = 0
    /\ rt = RtIdle

NextTabs ==
    \/ Used < MaxOps /\ CreateNewTab /\ UNCHANGED <<cookieVars, relayVars, view, last>>
    \/ \E t \in TabIds : SwitchToTab(t) /\ UNCHANGED <<cookieVars, relayVars, view, last>>
    \/ \E t \in TabIds : CloseTab(t) /\ UNCHANGED <<cookieVars, relayVars, view, last>>
    \/ Used + NavCost <= MaxOps /\ \E u \in Urls : NavigateTo(u) /\ UNCHANGED <<cookieVars, relayVars, view, last>>
    \/ (BackStarts => Used < MaxOps) /\ GoBack /\ UNCHANGED <<cookieVars, relayVars, view, last>>
    \/ (ForwardStarts => Used < MaxOps) /\ GoForward /\ UNCHANGED <<cookieVars, relayVars, view, last>>
    \/ (RefreshStarts => Used < MaxOps) /\ Refresh /\ UNCHANGED <<cookieVars, relayVars, view, last>>
    \/ \E n \in NavIds, ok \in BOOLEAN : RegisterSWDone(n, ok) /\ UNCHANGED <<cookieVars, relayVars, view, last>>
    \/ \E n \in NavIds : EstablishConnectionDone(n, TRUE) /\ UNCHANGED <<cookieVars, relayVars, view, last>>
    \/ \E t \in TabIds, d \in DocTitles : IframeLoad(t, d) /\ UNCHANGED <<cookieVars, relayVars, view, last>>
    \/ Used < MaxOps /\ \E t \in TabIds, u \in Urls, d \in DocTitles :
          UrlChange(t, u, d) /\ UNCHANGED <<cookieVars, relayVars, view, last>>

\* navigations and their retry and reload callbacks
NextNav ==
    \/ Len(navs) < MaxRetryNavs /\ \E u \in Urls : NavigateTo(u) /\ UNCHANGED <<cookieVars, relayVars, view, last>>
    \/ \E n \in NavIds, ok \in BOOLEAN : RegisterSWDone(n, ok) /\ UNCHANGED <<cookieVars, relayVars, view, last>>
    \/ \E n \in NavIds, ok \in BOOLEAN : EstablishConnectionDone(n, ok) /\ UNCHANGED <<cookieVars, relayVars, view, last>>
    \/ \E n \in NavIds : RetryTimer(n) /\ UNCHANGED <<cookieVars, relayVars, view, last>>
    \/ \E t \in TabIds, d \in DocTitles : IframeLoad(t, d) /\ UNCHANGED <<cookieVars, relayVars, view, last>>
    \/ \E t \in TabIds : IframeError(t) /\ UNCHANGED <<cookieVars, relayVars, view, last>>
    \/ \E n \in NavIds : LoadTimeout(n) /\ UNCHANGED <<cookieVars, relayVars, view, last>>
    \/ \E n \in NavIds : ConnectionMonitor(n) /\ UNCHANGED <<cookieVars, relayVars, view, last>>

\* the cookie manager of a first visit: nothing in local storage
InitCookieFresh ==
    /\ storage = NoItem
    /\ cookieStore = LoadCookies(storage)
    /\ now = 0
    /\ ret = Void
    /\ saveFailed = FALSE

(***************************************************************************)
(* Server: the request hook, the upgrade handler and the /ads/proxy relay. *)
(* Text the code inspects character by character is a sequence of          *)
(* one-character strings.                                                  *)
(***************************************************************************)
StartsWith(s, p) == Len(s) >= Len(p) /\ SubSeq(s, 1, Len(p)) = p
EndsWith(s, p) == Len(s) >= Len(p) /\ SubSeq(s, Len(s) - Len(p) + 1, Len(s)) = p
\* s.startsWith(p) from position i (1-based)
MatchAt(s, i, p) == i + Len(p) - 1 <= Len(s) /\ \A k \in 1..Len(p) : s[i + k - 1] = p[k]
Includes(s, p) == \E i \in 1..(Len(s) + 1) : MatchAt(s, i, p)

UpperCase == <<"A", "B", "C", "D", "E", "F", "G", "H", "I", "J", "K", "L", "M", "N", "O", "P", "Q", "R", "S", "T", "U", "V", "W", "X", "Y", "Z">>
LowerCase == <<"a", "b", "c", "d", "e", "f", "g", "h", "i", "j", "k", "l", "m", "n", "o", "p", "q", "r", "s", "t", "u", "v", "w", "x", "y", "z">>
DigitChars == <<"0", "1", "2", "3", "4", "5", "6", "7", "8", "9">>
InSeq(c, s) == \E i \in 1..Len(s) : s[i] = c
\* the lower-case letter of each upper-case letter
LowerOf ==
    [c \in {UpperCase[i] : i \in 1..Len(UpperCase)} |->
        LowerCase[CHOOSE i \in 1..Len(UpperCase) : UpperCase[i] = c]]
LowerChar(c) == IF c \in DOMAIN LowerOf THEN LowerOf[c] ELSE c
\* String.prototype.toLowerCase
ToLowerCase(s) == [i \in 1..Len(s) |-> LowerChar(s[i])]

\* the decimal text of a number
RECURSIVE Dec(_)
Dec(n) == IF n < 10 THEN <<DigitChars[n + 1]>>
          ELSE Dec(n \div 10) \o <<DigitChars[(n % 10) + 1]>>

\* The query parameter u, as the URL parser sees it: absent, the empty
\* string, text that is no absolute URL, or a scheme and a host. A host is a
\* domain name, an IPv4 address (four numbers) or an IPv6 address (its
\* compressed text, without brackets).
DomainHost(name) == [kind |-> "domain", name |-> name, octets |-> <<0, 0, 0, 0>>]
IPv4Host(a, b, c, d) == [kind |-> "ipv4", name |-> << >>, octets |-> <<a, b, c, d>>]
IPv6Host(text) == [kind |-> "ipv6", name |-> text, octets |-> <<0, 0, 0, 0>>]

MissingU == [kind |-> "missing", scheme |-> << >>, host |-> DomainHost(<< >>)]
EmptyU == [kind |-> "empty", scheme |-> << >>, host |-> DomainHost(<< >>)]
GarbageU == [kind |-> "garbage", scheme |-> << >>, host |-> DomainHost(<< >>)]
UrlU(scheme, host) == [kind |-> "url", scheme |-> scheme, host |-> host]

\* target.hostname: the host as the URL parser serialises it (a domain in
\* lower case, an IPv4 address dotted, an IPv6 address in square brackets)
Hostname(host) ==
    CASE host.kind = "domain" -> ToLowerCase(host.name)
      [] host.kind = "ipv4" ->
            Dec(host.octets[1]) \o <<".">> \o Dec(host.octets[2]) \o <<".">>
                \o Dec(host.octets[3]) \o <<".">> \o Dec(host.octets[4])
      [] OTHER -> <<"[">> \o ToLowerCase(host.name) \o <<"]">>

\* target.protocol: the scheme in lower case, with its colon
Protocol(scheme) == ToLowerCase(scheme) \o <<":">>

\* /^https?:$/.test(protocol)
IsHttp(protocol) == protocol = <<"h", "t", "t", "p", ":">> \/ protocol = <<"h", "t", "t", "p", "s", ":">>

\* /^172\.(1[6-9]|2\d|3[0-1])\./.test(hostl)
Is172Private(hostl) ==
    /\ Len(hostl) >= 7
    /\ StartsWith(hostl, <<"1", "7", "2", ".">>)
    /\ \/ hostl[5] = "1" /\ hostl[6] \in {"6", "7", "8", "9"}
       \/ hostl[5] = "2" /\ InSeq(hostl[6], DigitChars)
       \/ hostl[5] = "3" /\ hostl[6] \in {"0", "1"}
    /\ hostl[7] = "."

\* isBlockedHost
IsBlockedHost(hostl) ==
    \/ hostl = <<"l", "o", "c", "a", "l", "h", "o", "s", "t">> \/ EndsWith(hostl, <<".", "l", "o", "c", "a", "l", "h", "o", "s", "t">>)
    \/ hostl = <<"1", "2", "7", ".", "0", ".", "0", ".", "1">> \/ StartsWith(hostl, <<"1", "2", "7", ".">>)
    \/ StartsWith(hostl, <<"1", "0", ".">>) \/ StartsWith(hostl, <<"1", "9", "2", ".", "1", "6", "8", ".">>)
    \/ Is172Private(hostl)
    \/ hostl = <<":", ":", "1">> \/ StartsWith(hostl, <<"f", "e", "8", "0", ":">>)
    \/ StartsWith(hostl, <<"f", "c">>) \/ StartsWith(hostl, <<"f", "d">>)

\* the checks with the host test moved before the protocol test
Validate_Mutant(u) ==
    IF u.kind \in {"missing", "empty"} THEN [status |-> 400, body |-> <<"M", "i", "s", "s", "i", "n", "g", " ", "u">>]
    ELSE IF u.kind = "garbage" THEN [status |-> 400, body |-> <<"I", "n", "v", "a", "l", "i", "d", " ", "U", "R", "L">>]
    ELSE IF IsBlockedHost(ToLowerCase(Hostname(u.host)))
    THEN [status |-> 403, body |-> <<"F", "o", "r", "b", "i", "d", "d", "e", "n", " ", "h", "o", "s", "t">>]
    ELSE IF ~IsHttp(Protocol(u.scheme))
    THEN [status |-> 400, body |-> <<"U", "n", "s", "u", "p", "p", "o", "r", "t", "e", "d", " ", "p", "r", "o", "t", "o", "c", "o", "l">>]
    ELSE [status |-> 0, body |-> << >>]

\* the checks of /ads/proxy before the fetch, in their order: the reply they
\* send, or status 0 when the request passes them all
Validate(u) ==
    IF u.kind \in {"missing", "empty"} THEN [status |-> 400, body |-> <<"M", "i", "s", "s", "i", "n", "g", " ", "u">>]
    ELSE IF u.kind = "garbage" THEN [status |-> 400, body |-> <<"I", "n", "v", "a", "l", "i", "d", " ", "U", "R", "L">>]
    ELSE IF ~IsHttp(Protocol(u.scheme))
    THEN [status |-> 400, body |-> <<"U", "n", "s", "u", "p", "p", "o", "r", "t", "e", "d", " ", "p", "r", "o", "t", "o", "c", "o", "l">>]
    ELSE IF IsBlockedHost(ToLowerCase(Hostname(u.host)))
    THEN [status |-> 403, body |-> <<"F", "o", "r", "b", "i", "d", "d", "e", "n", " ", "h", "o", "s", "t">>]
    ELSE [status |-> 0, body |-> << >>]

\* ---- header copy ----

\* the skip set without x-frame-options
skipHeaders_Mutant == {<<"c", "o", "n", "t", "e", "n", "t", "-", "s", "e", "c", "u", "r", "i", "t", "y", "-", "p", "o", "l", "i", "c", "y">>, <<"c", "o", "n", "t", "e", "n", "t", "-", "l", "e", "n", "g", "t", "h">>}

\* const skipHeaders = new Set([...])
skipHeaders == {<<"c", "o", "n", "t", "e", "n", "t", "-", "s", "e", "c", "u", "r", "i", "t", "y", "-", "p", "o", "l", "i", "c", "y">>, <<"x", "-", "f", "r", "a", "m", "e", "-", "o", "p", "t", "i", "o", "n", "s">>, <<"c", "o", "n", "t", "e", "n", "t", "-", "l", "e", "n", "g", "t", "h">>}

\* the names of the fetch Headers object: always lower case
HeaderNames(headers) == {ToLowerCase(headers[i][1]) : i \in 1..Len(headers)}

\* res.headers.get(name): the value, or null (here the empty text)
HeaderGet(headers, name) ==
    IF name \in HeaderNames(headers)
    THEN headers[CHOOSE i \in 1..Len(headers) : ToLowerCase(headers[i][1]) = name][2]
    ELSE << >>

\* the Headers object of the fetch response: names in lower case
FetchHeaders(raw) == [i \in 1..Len(raw) |-> <<ToLowerCase(raw[i][1]), raw[i][2]>>]

\* the test of the copy loop: skipHeaders.has(k.toLowerCase())
Skipped(k) == ToLowerCase(k) \in skipHeaders

\* res.headers.forEach((v, k) => { if (!skip) reply.header(k, v) }); reply.header
\* files a header under its lower-case name
CopyHeaders(headers) ==
    LET kept == {i \in 1..Len(headers) : ~Skipped(headers[i][1])}
    IN  [k \in {ToLowerCase(headers[i][1]) : i \in kept} |-> HeaderGet(headers, k)]

\* reply.header(name, value)
SetHeader(h, name, value) ==
    [k \in DOMAIN h \cup {name} |-> IF k = name THEN value ELSE h[k]]

\* ---- HTML and CSS rewriting ----

\* the target of the relayed documents of this model, and its origin
BaseUrl == <<"h", "t", "t", "p", ":", "/", "/", "t", ".", "c", "o", "/">>
BaseOrigin == <<"h", "t", "t", "p", ":", "/", "/", "t", ".", "c", "o">>

\* encodeURIComponent on one character
EncodeChar(c) ==
    CASE c = ":" -> <<"%", "3", "A">> [] c = "/" -> <<"%", "2", "F">> [] c = "?" -> <<"%", "3", "F">>
      [] c = "=" -> <<"%", "3", "D">> [] c = "#" -> <<"%", "2", "3">> [] c = "%" -> <<"%", "2", "5">>
      [] c = " " -> <<"%", "2", "0">> [] c = "\"" -> <<"%", "2", "2">> [] c = "&" -> <<"%", "2", "6">>
      [] c = "," -> <<"%", "2", "C">> [] c = ";" -> <<"%", "3", "B">> [] c = "<" -> <<"%", "3", "C">>
      [] c = ">" -> <<"%", "3", "E">> [] c = "[" -> <<"%", "5", "B">> [] c = "]" -> <<"%", "5", "D">>
      [] c = "{" -> <<"%", "7", "B">> [] c = "}" -> <<"%", "7", "D">>
      [] OTHER -> <<c>>

RECURSIVE EncodeURIComponent(_)
EncodeURIComponent(s) ==
    IF s = << >> THEN << >>
    ELSE IF Len(s) = 1 THEN EncodeChar(s[1])
    ELSE LET half == Len(s) \div 2
         IN  EncodeURIComponent(SubSeq(s, 1, half))
             \o EncodeURIComponent(SubSeq(s, half + 1, Len(s)))

OpaqueSchemes == {<<"d", "a", "t", "a", ":">>, <<"b", "l", "o", "b", ":">>, <<"m", "a", "i", "l", "t", "o", ":">>, <<"j", "a", "v", "a", "s", "c", "r", "i", "p", "t", ":">>}

\* new NodeURL(urlStr, base).toString() for the references of this model:
\* an http URL (which needs a host), a URL of an opaque scheme, a path from
\* the root, or a path relative to the base; ok = FALSE where the parser throws
Resolve(urlStr) ==
    IF StartsWith(urlStr, <<"h", "t", "t", "p", ":", "/", "/">>)
    THEN [ok |-> Len(urlStr) > 7,
          abs |-> IF Includes(SubSeq(urlStr, 8, Len(urlStr)), <<"/">>)
                  THEN urlStr ELSE urlStr \o <<"/">>]
    ELSE IF \E p \in OpaqueSchemes : StartsWith(urlStr, p)
    THEN [ok |-> TRUE, abs |-> urlStr]
    ELSE IF StartsWith(urlStr, <<"/">>)
    THEN [ok |-> TRUE, abs |-> BaseOrigin \o urlStr]
    ELSE [ok |-> TRUE, abs |-> BaseUrl \o urlStr]

\* prox(urlStr)
Prox(urlStr) ==
    LET r == Resolve(urlStr)
    IN  IF r.ok THEN <<"/", "a", "d", "s", "/", "p", "r", "o", "x", "y", "?", "u", "=">> \o EncodeURIComponent(r.abs) ELSE urlStr

\* \w of a regular expression
WordChars ==
    {UpperCase[i] : i \in 1..Len(UpperCase)} \cup {LowerCase[i] : i \in 1..Len(LowerCase)}
    \cup {DigitChars[i] : i \in 1..Len(DigitChars)} \cup {"_"}
IsWordChar(c) == c \in WordChars

\* a literal matched under the i flag
MatchAtCI(s, i, p) ==
    i + Len(p) - 1 <= Len(s) /\ \A k \in 1..Len(p) : LowerChar(s[i + k - 1]) = p[k]

\* the least index >= from whose character is in chars, or 0
FirstOf(s, from, chars) ==
    LET hits == {j \in from..Len(s) : s[j] \in chars}
    IN  IF hits = {} THEN 0 ELSE CHOOSE j \in hits : \A k \in hits : j <= k

AttrNames == {<<"h", "r", "e", "f">>, <<"s", "r", "c">>, <<"a", "c", "t", "i", "o", "n">>, <<"p", "o", "s", "t", "e", "r">>}

NoMatch == [ok |-> FALSE, from |-> 0, to |-> 0, end |-> 0, nameLen |-> 0]

\* /\b(href|src|action|poster)=("|')([^"']+)(\2)/i anchored at position i:
\* the value is text[from..to], the match ends at end
AttrMatchAt(text, i) ==
    IF /\ (i = 1 \/ ~IsWordChar(text[i - 1]))
       /\ \E nm \in AttrNames : MatchAtCI(text, i, nm \o <<"=">>)
    THEN LET nm == CHOOSE x \in AttrNames : MatchAtCI(text, i, x \o <<"=">>)
             qi == i + Len(nm) + 1
         IN  IF qi <= Len(text) /\ text[qi] \in {"\"", "'"}
             THEN LET close == FirstOf(text, qi + 1, {"\"", "'"})
                  IN  IF close > qi + 1 /\ text[close] = text[qi]
                      THEN [ok |-> TRUE, from |-> qi + 1, to |-> close - 1,
                            end |-> close, nameLen |-> Len(nm)]
                      ELSE NoMatch
             ELSE NoMatch
    ELSE NoMatch

\* the values the attribute pass returns unchanged
KeepAttr(val) ==
    \/ StartsWith(val, <<"d", "a", "t", "a", ":">>) \/ StartsWith(val, <<"b", "l", "o", "b", ":">>)
    \/ StartsWith(val, <<"m", "a", "i", "l", "t", "o", ":">>) \/ StartsWith(val, <<"j", "a", "v", "a", "s", "c", "r", "i", "p", "t", ":">>)

\* where a global replace looks next: the least of the indexes at which the
\* pattern matches, or 0
NextIndex(hits) == IF hits = {} THEN 0 ELSE CHOOSE j \in hits : \A k \in hits : j <= k

\* out.replace(/\b(href|src|action|poster)=("|')([^"']+)(\2)/gi, ...) from position from
RECURSIVE RewriteAttrsFrom(_, _)
RewriteAttrsFrom(text, from) ==
    LET i == NextIndex({j \in from..Len(text) : AttrMatchAt(text, j).ok}) IN
    IF i = 0 THEN SubSeq(text, from, Len(text))
    ELSE LET m == AttrMatchAt(text, i)
             val == SubSeq(text, m.from, m.to)
             attr == SubSeq(text, i, i + m.nameLen - 1)
             q == <<text[m.end]>>
         IN  SubSeq(text, from, i - 1)
             \o (IF KeepAttr(val) THEN SubSeq(text, i, m.end)
                 ELSE attr \o <<"=">> \o q \o Prox(val) \o q)
             \o RewriteAttrsFrom(text, m.end + 1)

\* String.prototype.trim, for blanks
RECURSIVE Trim(_)
Trim(s) ==
    IF s = << >> THEN s
    ELSE IF Head(s) = " " THEN Trim(Tail(s))
    ELSE IF s[Len(s)] = " " THEN Trim(SubSeq(s, 1, Len(s) - 1))
    ELSE s

\* .replace(/^c|c$/g, ''): one leading and one trailing c are dropped
StripQuote(s, c) ==
    LET s1 == IF s # << >> /\ Head(s) = c THEN Tail(s) ELSE s
    IN  IF s1 # << >> /\ s1[Len(s1)] = c THEN SubSeq(s1, 1, Len(s1) - 1) ELSE s1

\* /url\(([^)]+)\)/i anchored at position i: the index of the closing
\* parenthesis of the match, or 0
CssUrlEnd(text, i) ==
    LET close == IF MatchAtCI(text, i, <<"u", "r", "l", "(">>)
                 THEN FirstOf(text, i + 4, {")"}) ELSE 0
    IN  IF close > i + 4 THEN close ELSE 0

\* .replace(/url\(([^)]+)\)/gi, ...) from position from
RECURSIVE RewriteCssUrlsFrom(_, _)
RewriteCssUrlsFrom(text, from) ==
    LET i == NextIndex({j \in from..Len(text) : CssUrlEnd(text, j) > 0}) IN
    IF i = 0 THEN SubSeq(text, from, Len(text))
    ELSE LET close == CssUrlEnd(text, i)
             inner == SubSeq(text, i + 4, close - 1)
             s == StripQuote(StripQuote(Trim(inner), "\""), "'")
         IN  SubSeq(text, from, i - 1)
             \o (IF StartsWith(s, <<"d", "a", "t", "a", ":">>)
                    \/ StartsWith(s, <<"b", "l", "o", "b", ":">>)
                 THEN SubSeq(text, i, close)
                 ELSE <<"u", "r", "l", "(">> \o Prox(s) \o <<")">>)
             \o RewriteCssUrlsFrom(text, close + 1)

CspEquiv ==
    {<<"h", "t", "t", "p", "-", "e", "q", "u", "i", "v", "=", "\"", "c", "o", "n", "t", "e", "n", "t", "-", "s", "e", "c", "u", "r", "i", "t", "y", "-", "p", "o", "l", "i", "c", "y", "\"">>, <<"h", "t", "t", "p", "-", "e", "q", "u", "i", "v", "=", "'", "c", "o", "n", "t", "e", "n", "t", "-", "s", "e", "c", "u", "r", "i", "t", "y", "-", "p", "o", "l", "i", "c", "y", "'">>,
     <<"h", "t", "t", "p", "-", "e", "q", "u", "i", "v", "=", "\"", "c", "o", "n", "t", "e", "n", "t", "-", "s", "e", "c", "u", "r", "i", "t", "y", "-", "p", "o", "l", "i", "c", "y", "'">>, <<"h", "t", "t", "p", "-", "e", "q", "u", "i", "v", "=", "'", "c", "o", "n", "t", "e", "n", "t", "-", "s", "e", "c", "u", "r", "i", "t", "y", "-", "p", "o", "l", "i", "c", "y", "\"">>}

\* /<meta[^>]+http-equiv=["']Content-Security-Policy["'][^>]*>/i anchored at
\* position i: the index of the closing > of the match, or 0
CspMetaEnd(text, i) ==
    IF MatchAtCI(text, i, <<"<", "m", "e", "t", "a">>)
    THEN LET gt == FirstOf(text, i + 5, {">"})
         IN  IF gt > 0 /\ \E j \in (i + 6)..gt, e \in CspEquiv :
                            MatchAtCI(text, j, e) /\ j + Len(e) <= gt
             THEN gt ELSE 0
    ELSE 0

\* .replace(/<meta[^>]+http-equiv=...[^>]*>/gi, '') from position i
RECURSIVE RemoveCspMetaFrom(_, _)
RemoveCspMetaFrom(text, from) ==
    LET i == NextIndex({j \in from..Len(text) : CspMetaEnd(text, j) > 0}) IN
    IF i = 0 THEN SubSeq(text, from, Len(text))
    ELSE SubSeq(text, from, i - 1) \o RemoveCspMetaFrom(text, CspMetaEnd(text, i) + 1)

\* the three passes over an HTML document
RewriteHtml(text) ==
    RemoveCspMetaFrom(RewriteCssUrlsFrom(RewriteAttrsFrom(text, 1), 1), 1)

\* the pass over a style sheet
RewriteCss(css) == RewriteCssUrlsFrom(css, 1)

\* ---- the inputs of the server ----

\* an attribute of the <a ...> tag of a relayed document
Attr(name, q, val) == [name |-> name, q |-> q, val |-> val]

AttrPool ==
    { Attr(<<"h", "r", "e", "f">>, "\"", <<"/", "x">>),
      Attr(<<"s", "r", "c">>, "'", <<"a", ".", "p", "n", "g">>),
      Attr(<<"S", "R", "C">>, "\"", <<"h", "t", "t", "p", ":", "/", "/", "e", ".", "o", "r", "g", "/", "p">>),
      Attr(<<"h", "r", "e", "f">>, "\"", <<"d", "a", "t", "a", ":", ",", "x">>),
      Attr(<<"a", "c", "t", "i", "o", "n">>, "'", <<"j", "a", "v", "a", "s", "c", "r", "i", "p", "t", ":", "1">>),
      Attr(<<"p", "o", "s", "t", "e", "r">>, "\"", <<"m", "a", "i", "l", "t", "o", ":", "a">>),
      Attr(<<"h", "r", "e", "f">>, "'", <<"b", "l", "o", "b", ":", "y">>),
      Attr(<<"h", "r", "e", "f">>, "\"", <<"a", "'", "b">>),
      Attr(<<"s", "r", "c">>, "\"", <<"/", "x", "?", "y", "=", "u", "r", "l", "(", "1", ")">>),
      Attr(<<"s", "r", "c">>, "\"", <<"d", "a", "t", "a", ":", ",", "u", "r", "l", "(", "z", ")">>),
      Attr(<<"h", "r", "e", "f">>, "\"", <<"h", "t", "t", "p", ":", "/", "/">>),
      Attr(<<"d", "a", "t", "a", "-", "s", "r", "c">>, "\"", <<"/", "d">>) }

\* the attribute lists of at most MaxAttrs attributes
RECURSIVE AttrLists(_)
AttrLists(n) ==
    IF n = 0 THEN {<< >>}
    ELSE LET shorter == AttrLists(n - 1)
         IN  shorter \cup {Append(l, a) : l \in {x \in shorter : Len(x) = n - 1}, a \in AttrPool}

\* a document: an optional CSP meta tag, an optional style block, one tag
Docs ==
    {[attrs |-> l, meta |-> ms[1], style |-> ms[2]] :
        l \in AttrLists(MaxAttrs) \ {<< >>},
        ms \in {<<FALSE, FALSE>>, <<TRUE, FALSE>>, <<FALSE, TRUE>>}}

RECURSIVE RenderAttrs(_)
RenderAttrs(l) ==
    IF l = << >> THEN << >>
    ELSE <<" ">> \o Head(l).name \o <<"=">> \o <<Head(l).q>> \o Head(l).val \o <<Head(l).q>>
         \o RenderAttrs(Tail(l))

\* the text of a document
Render(doc) ==
    (IF doc.meta THEN <<"<", "m", "e", "t", "a", " ", "h", "t", "t", "p", "-", "e", "q", "u", "i", "v", "=", "\"", "C", "o", "n", "t", "e", "n", "t", "-", "S", "e", "c", "u", "r", "i", "t", "y", "-", "P", "o", "l", "i", "c", "y", "\"", " ", "c", "o", "n", "t", "e", "n", "t", "=", "\"", "x", "\"", ">">> ELSE << >>)
    \o (IF doc.style THEN <<"<", "s", "t", "y", "l", "e", ">", "a", "{", "b", "a", "c", "k", "g", "r", "o", "u", "n", "d", ":", "u", "r", "l", "(", "'", "i", ".", "p", "n", "g", "'", ")", "}", "<", "/", "s", "t", "y", "l", "e", ">">> ELSE << >>)
    \o <<"<", "a">> \o RenderAttrs(doc.attrs) \o <<">">>

NoDoc == [attrs |-> << >>, meta |-> FALSE, style |-> FALSE]

Upstream(status, headers, doc, body) ==
    [status |-> status, headers |-> headers, doc |-> doc, body |-> body]

ExtraHeaders ==
    { << >>,
      << <<<<"C", "o", "n", "t", "e", "n", "t", "-", "S", "e", "c", "u", "r", "i", "t", "y", "-", "P", "o", "l", "i", "c", "y">>, <<"d", "e", "f", "a", "u", "l", "t", "-", "s", "r", "c", " ", "'", "n", "o", "n", "e", "'">>>>, <<<<"E", "T", "a", "g">>, <<"e", "1">>>> >>,
      << <<<<"x", "-", "f", "r", "a", "m", "e", "-", "o", "p", "t", "i", "o", "n", "s">>, <<"D", "E", "N", "Y">>>>, <<<<"C", "O", "N", "T", "E", "N", "T", "-", "L", "E", "N", "G", "T", "H">>, <<"1", "2">>>>,
         <<<<"C", "a", "c", "h", "e", "-", "C", "o", "n", "t", "r", "o", "l">>, <<"m", "a", "x", "-", "a", "g", "e", "=", "6", "0">>>> >> }

\* HTML responses, one per document
HtmlUpstreams ==
    {Upstream(200, << <<<<"C", "o", "n", "t", "e", "n", "t", "-", "T", "y", "p", "e">>, <<"t", "e", "x", "t", "/", "h", "t", "m", "l">>>>, <<<<"X", "-", "F", "r", "a", "m", "e", "-", "O", "p", "t", "i", "o", "n", "s">>, <<"D", "E", "N", "Y">>>> >>,
              d, Render(d)) : d \in Docs}

\* responses of the other kinds
OtherUpstreams ==
    {Upstream(st, << <<<<"C", "o", "n", "t", "e", "n", "t", "-", "T", "y", "p", "e">>, ct>> >> \o ex, NoDoc, body) :
        st \in {200, 404},
        ct \in {<<"t", "e", "x", "t", "/", "h", "t", "m", "l", ";", " ", "c", "h", "a", "r", "s", "e", "t", "=", "u", "t", "f", "-", "8">>, <<"t", "e", "x", "t", "/", "c", "s", "s">>, <<"i", "m", "a", "g", "e", "/", "p", "n", "g">>},
        ex \in ExtraHeaders,
        body \in {<<"a", "{", "b", "a", "c", "k", "g", "r", "o", "u", "n", "d", ":", "u", "r", "l", "(", "\"", "/", "i", ".", "p", "n", "g", "\"", ")", "}">>}}
    \cup {Upstream(200, ex, NoDoc, <<"x">>) : ex \in ExtraHeaders}

Upstreams == HtmlUpstreams \cup OtherUpstreams

SchemePool == {<<"h", "t", "t", "p">>, <<"h", "t", "t", "p", "s">>, <<"H", "T", "T", "P">>, <<"f", "t", "p">>}

HostPool ==
    {DomainHost(n) : n \in {<<"l", "o", "c", "a", "l", "h", "o", "s", "t">>, <<"L", "O", "C", "A", "L", "H", "O", "S", "T">>, <<"a", ".", "l", "o", "c", "a", "l", "h", "o", "s", "t">>, <<"t", ".", "c", "o">>,
                            <<"f", "c", ".", "i", "o">>, <<"l", "o", "c", "a", "l", "h", "o", "s", "t", ".", "e", "v", "i", "l", ".", "c", "o", "m">>}}
    \cup {IPv4Host(a, b, 0, 1) : a \in {8, 10, 11, 127, 172, 192},
                                 b \in {0, 15, 16, 31, 32, 168}}
    \cup {IPv6Host(t) : t \in {<<":", ":", "1">>, <<"f", "e", "8", "0", ":", ":", "1">>, <<"f", "c", "0", "0", ":", ":", "1">>, <<"f", "d", "1", "2", ":", ":", "1">>, <<"2", "0", "0", "1", ":", "d", "b", "8", ":", ":", "1">>}}

UPool ==
    {MissingU, EmptyU, GarbageU} \cup {UrlU(s, h) : s \in SchemePool, h \in HostPool}

\* the target of the relayed documents
GoodU == UrlU(<<"h", "t", "t", "p">>, DomainHost(<<"t", ".", "c", "o">>))

PathPool == {<<"/">>, <<"/", "i", "n", "d", "e", "x", ".", "j", "s">>, <<"/", "a", "d", "s", "/", "p", "r", "o", "x", "y">>, <<"/", "a", "d", "s", "/", "x", ".", "j", "s">>, <<"/", "a", "d", "s">>, <<"/", "A", "d", "s", "/", "p", "r", "o", "x", "y">>,
             <<"/", "x", "/", "a", "d", "s", "/">>, <<"/", "w", "i", "s", "p", "/">>}

UpgradeUrls == {<<"/", "w", "i", "s", "p", "/">>, <<"/", "w", "i", "s", "p">>, <<"/">>, <<"/", "x", "/", "w", "i", "s", "p", "/">>, <<"/", "w", "i", "s", "p", "/", "?", "a", "=", "1">>, <<"/", "?", "a", "=", "/", "w", "i", "s", "p", "/">>}

\* ---- the server's handlers ----

NoHeaders == [k \in {} |-> << >>]

\* the 'request' listener of serverFactory: the headers it sets on the response
HookHeaders_Mutant(url) ==
    IF ~Includes(url, <<"/", "a", "d", "s", "/">>)
    THEN SetHeader(SetHeader(NoHeaders, <<"c", "r", "o", "s", "s", "-", "o", "r", "i", "g", "i", "n", "-", "o", "p", "e", "n", "e", "r", "-", "p", "o", "l", "i", "c", "y">>, <<"s", "a", "m", "e", "-", "o", "r", "i", "g", "i", "n">>),
                   <<"c", "r", "o", "s", "s", "-", "o", "r", "i", "g", "i", "n", "-", "e", "m", "b", "e", "d", "d", "e", "r", "-", "p", "o", "l", "i", "c", "y">>, <<"r", "e", "q", "u", "i", "r", "e", "-", "c", "o", "r", "p">>)
    ELSE NoHeaders

HookHeaders(url) ==
    IF ~StartsWith(url, <<"/", "a", "d", "s", "/">>)
    THEN SetHeader(SetHeader(NoHeaders, <<"c", "r", "o", "s", "s", "-", "o", "r", "i", "g", "i", "n", "-", "o", "p", "e", "n", "e", "r", "-", "p", "o", "l", "i", "c", "y">>, <<"s", "a", "m", "e", "-", "o", "r", "i", "g", "i", "n">>),
                   <<"c", "r", "o", "s", "s", "-", "o", "r", "i", "g", "i", "n", "-", "e", "m", "b", "e", "d", "d", "e", "r", "-", "p", "o", "l", "i", "c", "y">>, <<"r", "e", "q", "u", "i", "r", "e", "-", "c", "o", "r", "p">>)
    ELSE NoHeaders

\* headers the response ends with: those of the reply over those set on the raw response
Merge(raw, h) == [k \in DOMAIN raw \cup DOMAIN h |-> IF k \in DOMAIN h THEN h[k] ELSE raw[k]]

Reply(status, headers, body, hook) ==
    [status |-> status, headers |-> Merge(hook, headers), body |-> body, hook |-> hook]

PlainText == SetHeader(NoHeaders, <<"c", "o", "n", "t", "e", "n", "t", "-", "t", "y", "p", "e">>, <<"t", "e", "x", "t", "/", "p", "l", "a", "i", "n", ";", " ", "c", "h", "a", "r", "s", "e", "t", "=", "u", "t", "f", "-", "8">>)

\* the handler of GET /ads/proxy: the reply and whether fetch was called;
\* net tells how the upstream behaves: "ok", "fetchFails" (fetch rejects) or
\* "bodyFails" (res.text() rejects)
AdsProxy(u, up, net, hook) ==
    LET v == Validate(u) IN
    IF v.status # 0
    THEN [reply |-> Reply(v.status, PlainText, v.body, hook), fetched |-> FALSE,
          relayed |-> FALSE]
    ELSE IF net = "fetchFails"
    THEN [reply |-> Reply(502, SetHeader(NoHeaders, <<"c", "o", "n", "t", "e", "n", "t", "-", "t", "y", "p", "e">>, <<"t", "e", "x", "t", "/", "p", "l", "a", "i", "n">>),
                          <<"P", "r", "o", "x", "y", " ", "e", "r", "r", "o", "r">>, hook),
          fetched |-> TRUE, relayed |-> FALSE]
    ELSE LET resHeaders == FetchHeaders(up.headers)
             contentType == HeaderGet(resHeaders, <<"c", "o", "n", "t", "e", "n", "t", "-", "t", "y", "p", "e">>)
             copied == CopyHeaders(resHeaders)
             rewritten == Includes(contentType, <<"t", "e", "x", "t", "/", "h", "t", "m", "l">>) \/ Includes(contentType, <<"t", "e", "x", "t", "/", "c", "s", "s">>)
         IN  IF rewritten /\ net = "bodyFails"
             THEN [reply |-> Reply(502, SetHeader(copied, <<"c", "o", "n", "t", "e", "n", "t", "-", "t", "y", "p", "e">>, <<"t", "e", "x", "t", "/", "p", "l", "a", "i", "n">>),
                                   <<"P", "r", "o", "x", "y", " ", "e", "r", "r", "o", "r">>, hook),
                   fetched |-> TRUE, relayed |-> FALSE]
             ELSE IF Includes(contentType, <<"t", "e", "x", "t", "/", "h", "t", "m", "l">>)
             THEN [reply |-> Reply(up.status,
                                   SetHeader(copied, <<"c", "o", "n", "t", "e", "n", "t", "-", "t", "y", "p", "e">>, <<"t", "e", "x", "t", "/", "h", "t", "m", "l", ";", " ", "c", "h", "a", "r", "s", "e", "t", "=", "u", "t", "f", "-", "8">>),
                                   RewriteHtml(up.body), hook),
                   fetched |-> TRUE, relayed |-> TRUE]
             ELSE IF Includes(contentType, <<"t", "e", "x", "t", "/", "c", "s", "s">>)
             THEN [reply |-> Reply(up.status,
                                   SetHeader(copied, <<"c", "o", "n", "t", "e", "n", "t", "-", "t", "y", "p", "e">>, <<"t", "e", "x", "t", "/", "c", "s", "s", ";", " ", "c", "h", "a", "r", "s", "e", "t", "=", "u", "t", "f", "-", "8">>),
                                   RewriteCss(up.body), hook),
                   fetched |-> TRUE, relayed |-> TRUE]
             ELSE [reply |-> Reply(up.status, SetHeader(copied, <<"c", "a", "c", "h", "e", "-", "c", "o", "n", "t", "r", "o", "l">>, <<"n", "o", "-", "s", "t", "o", "r", "e">>),
                                   up.body, hook),
                   fetched |-> TRUE, relayed |-> TRUE]

NoUpstream == Upstream(0, << >>, NoDoc, << >>)
NoReply == [status |-> 0, headers |-> NoHeaders, body |-> << >>, hook |-> NoHeaders]

\* an HTTP request for url (its path) with query parameter u arrives: the
\* request listener runs, then the route's handler. The handlers share no
\* state, so the model takes the requests one at a time.
HttpRequest(url, u, up, net, found) ==
    /\ req.event = "none"
    /\ req' = [event |-> "request", url |-> url, u |-> u, net |-> net]
    /\ conn' = "none"
    /\ IF url = <<"/", "a", "d", "s", "/", "p", "r", "o", "x", "y">>
       THEN LET r == AdsProxy(u, up, net, HookHeaders(url))
            IN  /\ reply' = r.reply
                /\ fetched' = r.fetched
                /\ upstream' = IF r.relayed THEN up ELSE NoUpstream
       ELSE \* a static file, or the not-found handler
            /\ reply' = IF found
                        THEN Reply(200, NoHeaders, <<"f", "i", "l", "e">>, HookHeaders(url))
                        ELSE Reply(404, SetHeader(NoHeaders, <<"c", "o", "n", "t", "e", "n", "t", "-", "t", "y", "p", "e">>, <<"t", "e", "x", "t", "/", "h", "t", "m", "l">>),
                                   <<"4", "0", "4", ".", "h", "t", "m", "l">>, HookHeaders(url))
            /\ fetched' = FALSE
            /\ upstream' = NoUpstream

\* the upgrade listener with includes in place of endsWith
Upgrade_Mutant(url) ==
    /\ req.event = "none"
    /\ req' = [event |-> "upgrade", url |-> url, u |-> MissingU, net |-> "ok"]
    /\ conn' = IF Includes(url, <<"/", "w", "i", "s", "p", "/">>) THEN "wisp" ELSE "ended"
    /\ reply' = NoReply
    /\ fetched' = FALSE
    /\ upstream' = NoUpstream

\* the 'upgrade' listener of serverFactory
Upgrade(url) ==
    /\ req.event = "none"
    /\ req' = [event |-> "upgrade", url |-> url, u |-> MissingU, net |-> "ok"]
    /\ conn' = IF EndsWith(url, <<"/", "w", "i", "s", "p", "/">>) THEN "wisp" ELSE "ended"
    /\ reply' = NoReply
    /\ fetched' = FALSE
    /\ upstream' = NoUpstream

\* the response has been written and the exchange is over
Sent ==
    /\ req.event # "none"
    /\ req' = [event |-> "none", url |-> << >>, u |-> MissingU, net |-> "ok"]
    /\ reply' = NoReply
    /\ fetched' = FALSE
    /\ upstream' = NoUpstream
    /\ conn' = "none"

InitRelay ==
    /\ req = [event |-> "none", url |-> << >>, u |-> MissingU, net |-> "ok"]
    /\ reply = NoReply
    /\ fetched = FALSE
    /\ upstream = NoUpstream
    /\ conn = "none"

NetOutcomes == {"ok", "fetchFails", "bodyFails"}

NextRelay ==
    \/ \E p \in PathPool \ {<<"/", "a", "d", "s", "/", "p", "r", "o", "x", "y">>}, found \in BOOLEAN :
          HttpRequest(p, MissingU, NoUpstream, "ok", found) /\ UNCHANGED <<cookieVars, tabVars, view, last>>
    \/ \E u \in UPool, net \in {"ok", "fetchFails"} :
          HttpRequest(<<"/", "a", "d", "s", "/", "p", "r", "o", "x", "y">>, u, Upstream(200, << >>, NoDoc, <<"x">>), net, TRUE)
          /\ UNCHANGED <<cookieVars, tabVars, view, last>>
    \/ \E up \in Upstreams, net \in NetOutcomes :
          HttpRequest(<<"/", "a", "d", "s", "/", "p", "r", "o", "x", "y">>, GoodU, up, net, TRUE) /\ UNCHANGED <<cookieVars, tabVars, view, last>>
    \/ \E url \in UpgradeUrls : Upgrade(url) /\ UNCHANGED <<cookieVars, tabVars, view, last>>
    \/ Sent /\ UNCHANGED <<cookieVars, tabVars, view, last>>

\* ---- reads of the cookie store and Set-Cookie headers ----

NoView == [kind |-> "none", entries |-> EmptyObj]

\* getCookie(domain, name) as a function of the store: what it returns
Lookup(store, domain, name) ==
    IF domain \notin DOMAIN store THEN Null
    ELSE IF store[domain].kind # "Map" THEN Threw
    ELSE IF name \notin DOMAIN store[domain].cookies THEN Null
    ELSE IF Expired(store[domain].cookies[name]) THEN Null
    ELSE Returned(store[domain].cookies[name].value)

\* the names getCookiesForDomain puts in its result: a plain object has no
\* entries property, and expired cookies are skipped
Unexpired(store, domain) ==
    IF domain \notin DOMAIN store \/ store[domain].kind # "Map" THEN {}
    ELSE {n \in DOMAIN store[domain].cookies : ~Expired(store[domain].cookies[n])}

\* the object getCookiesForDomain returns: name -> value
CookiesFor(store, domain) ==
    [n \in Unexpired(store, domain) |-> store[domain].cookies[n].value]

\* the store after the loop of getCookiesForDomain: expired cookies deleted
Purged(store, domain) ==
    IF domain \notin DOMAIN store \/ store[domain].kind # "Map" THEN store
    ELSE StoreSet(store, domain,
            [kind |-> "Map",
             cookies |-> [n \in Unexpired(store, domain) |-> store[domain].cookies[n]]])

\* getCookiesForDomain(domain), shared by the two entry points; kind tells
\* what the caller returns
CookiesForDomain(domain, ok, kind) ==
    /\ view' = [kind |-> kind, entries |-> CookiesFor(cookieStore, domain)]
    /\ ret' = [kind |-> kind, val |-> Undef]
    /\ UNCHANGED now
    /\ IF domain \notin DOMAIN cookieStore \/ cookieStore[domain].kind # "Map"
       THEN UNCHANGED <<cookieStore, storage, saveFailed>>
       ELSE /\ cookieStore' = Purged(cookieStore, domain)
            /\ SaveCookies(Purged(cookieStore, domain), ok)

GetCookiesForDomain(domain, ok) == CookiesForDomain(domain, ok, "object")

\* getCookieString(domain): the name=value items of the result of
\* getCookiesForDomain, joined with '; ' (the items are kept as entries)
GetCookieString(domain, ok) == CookiesForDomain(domain, ok, "string")

\* A Set-Cookie header, given by what split(';') and, on each part,
\* split('=') make of it: a sequence of parts, each a sequence of tokens.
HeaderPool ==
    { << <<"sid", "v1">> >>,
      << <<"sid", "v2">>, <<" Domain", "b.com">>, <<" Path", "/p">> >>,
      << <<"t", "v1">>, <<" Max-Age", "1">>, <<" Secure">>, <<" HttpOnly">>,
         <<" SameSite", "Strict">> >>,
      << <<"sid">> >>,
      << <<" t ", "v2", "x">>, <<" expires", "2">> >> }

\* the setCookieHeaders argument: undefined, one header or an array of headers
NoSetCookie == [kind |-> "undefined", list |-> << >>]
HeaderInputs ==
    {NoSetCookie}
    \cup {[kind |-> "string", list |-> <<h>>] : h \in HeaderPool}
    \cup {[kind |-> "array", list |-> << << <<"sid">> >>, << <<"sid", "v1">> >> >>]}

\* String.prototype.trim on the tokens above
TrimToken(t) ==
    CASE t = " t " -> "t" [] t = " Domain" -> "Domain" [] t = " Path" -> "Path"
      [] t = " Max-Age" -> "Max-Age" [] t = " Secure" -> "Secure"
      [] t = " HttpOnly" -> "HttpOnly" [] t = " SameSite" -> "SameSite"
      [] t = " expires" -> "expires" [] OTHER -> t

\* String.prototype.toLowerCase on the attribute names above
LowerToken(t) ==
    CASE t = "Domain" -> "domain" [] t = "Path" -> "path" [] t = "Max-Age" -> "max-age"
      [] t = "Secure" -> "secure" [] t = "HttpOnly" -> "httponly"
      [] t = "SameSite" -> "samesite" [] OTHER -> t

\* parseInt, and the date an expires attribute names, on the numerals above
ParseInt(t) == CASE t = "1" -> 1 [] t = "2" -> 2 [] OTHER -> 0

\* the second element of a destructured split('='), undefined when missing
Second(tokens) == IF Len(tokens) >= 2 THEN tokens[2] ELSE Undef

NoOptions ==
    [domain |-> Undef, path |-> Undef, expires |-> NoDate, secure |-> FALSE,
     httpOnly |-> FALSE, sameSite |-> Undef]

\* one turn of parts.slice(1).forEach: the switch on the lower-case key
OptionOf(opts, part) ==
    LET key == LowerToken(TrimToken(part[1]))
        val == Second(part)
    IN  CASE key = "domain" -> [opts EXCEPT !.domain = val]
          [] key = "path" -> [opts EXCEPT !.path = val]
          [] key = "expires" -> [opts EXCEPT !.expires = <<ParseInt(val)>>]
          [] key = "max-age" -> [opts EXCEPT !.expires = <<now + ParseInt(val)>>]
          [] key = "secure" -> [opts EXCEPT !.secure = TRUE]
          [] key = "httponly" -> [opts EXCEPT !.httpOnly = TRUE]
          [] key = "samesite" -> [opts EXCEPT !.sameSite = val]
          [] OTHER -> opts

RECURSIVE OptionsOf(_, _)
OptionsOf(parts, i) ==
    IF i < 2 THEN NoOptions ELSE OptionOf(OptionsOf(parts, i - 1), parts[i])

\* setCookie as a function of the manager's state st = [store, storage,
\* saveFailed, threw]; nothing happens once an earlier call has thrown
SetCookieOn(st, domain, name, value, options, ok) ==
    IF st.threw THEN st
    ELSE LET s1 == IF domain \in DOMAIN st.store THEN st.store
                   ELSE StoreSet(st.store, domain, NewMap)
         IN  IF s1[domain].kind # "Map" THEN [st EXCEPT !.threw = TRUE]
             ELSE LET s2 == StoreSet(s1, domain,
                               MapSet(s1[domain], name, CookieOf(domain, value, options)))
                  IN  [store |-> s2,
                       storage |-> IF ok THEN JSONText(Stringify(s2)) ELSE st.storage,
                       saveFailed |-> ~ok,
                       threw |-> FALSE]

\* one turn of headers.forEach
HeaderOn(st, domain, header, ok) ==
    LET name == header[1][1]
        value == Second(header[1])
    IN  IF name = "" \/ value = Undef \/ value = "" THEN st
        ELSE SetCookieOn(st, domain, TrimToken(name), TrimToken(value),
                         OptionsOf(header, Len(header)), ok)

RECURSIVE HeadersOn(_, _, _, _, _)
HeadersOn(st, domain, list, oks, i) ==
    IF i = 0 THEN st
    ELSE HeaderOn(HeadersOn(st, domain, list, oks, i - 1), domain, list[i], oks[i])

\* parseSetCookieHeaders(domain, setCookieHeaders); oks[i] tells whether the
\* save of the i-th header succeeds
ParseSetCookieHeaders(domain, input, oks) ==
    LET st == HeadersOn([store |-> cookieStore, storage |-> storage,
                         saveFailed |-> saveFailed, threw |-> FALSE],
                        domain, input.list, oks, Len(input.list))
    IN  /\ cookieStore' = st.store
        /\ storage' = st.storage
        /\ saveFailed' = st.saveFailed
        /\ ret' = IF st.threw THEN Threw ELSE Void
        /\ view' = NoView
        /\ UNCHANGED now

\* the options of the calls of a session: none
SessionOptions == {o \in OptionSet : o.path = Undef /\ o.expires = NoDate}

\* one session of the cookie manager, with every method of the class, in
\* which local storage accepts every write
NextSession ==
    \/ \E d \in Domains, n \in Names, v \in Values, o \in SessionOptions :
          SetCookie(d, n, v, o, TRUE) /\ view' = NoView /\ UNCHANGED <<tabVars, relayVars, last>>
    \/ \E d \in Domains, n \in Names :
          GetCookie(d, n, TRUE) /\ view' = NoView /\ UNCHANGED <<tabVars, relayVars, last>>
    \/ \E d \in Domains, n \in Names :
          DeleteCookie(d, n, TRUE) /\ view' = NoView /\ UNCHANGED <<tabVars, relayVars, last>>
    \/ ClearAllCookies(TRUE) /\ view' = NoView /\ UNCHANGED <<tabVars, relayVars, last>>
    \/ \E d \in Domains :
          GetCookiesForDomain(d, TRUE) /\ UNCHANGED <<tabVars, relayVars, last>>
    \/ \E d \in Domains :
          GetCookieString(d, TRUE) /\ UNCHANGED <<tabVars, relayVars, last>>
    \/ \E d \in Domains, input \in HeaderInputs :
          ParseSetCookieHeaders(d, input, <<TRUE, TRUE>>)
          /\ UNCHANGED <<tabVars, relayVars, last>>
    \/ Tick /\ view' = NoView /\ UNCHANGED <<tabVars, relayVars, last>>

\* ---- the observer of tab operations ----

Snapshot ==
    [tabs |-> tabs, tabOrder |-> tabOrder, currentTabId |-> currentTabId,
     tabCounter |-> tabCounter, history |-> history,
     currentHistoryIndex |-> currentHistoryIndex, navs |-> navs, errorText |-> errorText]

\* the operation op with argument arg is being performed and createTab, if
\* it runs, returns made; seen and ids are the identifiers createTab has
\* returned before and up to this operation, pre the state it started in
Observe(op, arg, made) ==
    last' = [op |-> op, arg |-> arg, made |-> made,
             seen |-> last.ids,
             ids |-> IF made = "" THEN last.ids ELSE last.ids \cup {made},
             pre |-> Snapshot]

InitObserved ==
    /\ view = NoView
    /\ last = [op |-> "none", arg |-> "", made |-> "", seen |-> {}, ids |-> {},
               pre |-> Snapshot]

\* operations on the tab strip and navigations per run
MaxTabOps == 3

\* the tab manager with every operation observed
NextTabOps ==
    \/ /\ Used < MaxTabOps
       /\ CreateNewTab /\ Observe("createTab", "", TabIdOf(tabCounter))
       /\ UNCHANGED <<cookieVars, relayVars, view>>
    \/ \E t \in TabIds :
          /\ SwitchToTab(t) /\ Observe("switchToTab", t, "")
          /\ UNCHANGED <<cookieVars, relayVars, view>>
    \/ \E t \in TabIds :
          /\ CloseTab(t) /\ Observe("closeTab", t, "")
          /\ UNCHANGED <<cookieVars, relayVars, view>>
    \/ /\ Used + NavCost <= MaxTabOps
       /\ \E u \in Urls :
             /\ NavigateTo(u)
             /\ Observe("navigateTo", u,
                        IF currentTabId = "home" THEN TabIdOf(tabCounter) ELSE "")
       /\ UNCHANGED <<cookieVars, relayVars, view>>
    \/ /\ BackStarts => Used < MaxTabOps
       /\ GoBack /\ Observe("goBack", "", "")
       /\ UNCHANGED <<cookieVars, relayVars, view>>
    \/ /\ ForwardStarts => Used < MaxTabOps
       /\ GoForward /\ Observe("goForward", "", "")
       /\ UNCHANGED <<cookieVars, relayVars, view>>
    \/ /\ RefreshStarts => Used < MaxTabOps
       /\ Refresh /\ Observe("refresh", "", "")
       /\ UNCHANGED <<cookieVars, relayVars, view>>
    \/ \E n \in NavIds, ok \in BOOLEAN :
          /\ RegisterSWDone(n, ok) /\ Observe("registerSW", "", "")
          /\ UNCHANGED <<cookieVars, relayVars, view>>
    \/ \E n \in NavIds :
          /\ EstablishConnectionDone(n, TRUE) /\ Observe("establishConnection", "", "")
          /\ UNCHANGED <<cookieVars, relayVars, view>>
    \/ \E t \in TabIds, d \in DocTitles :
          /\ IframeLoad(t, d) /\ Observe("load", t, "")
          /\ UNCHANGED <<cookieVars, relayVars, view>>
    \/ /\ Used < MaxTabOps
       /\ \E t \in TabIds, u \in Urls, d \in DocTitles :
             /\ UrlChange(t, u, d) /\ Observe("urlChange", t, "")
       /\ UNCHANGED <<cookieVars, relayVars, view>>

\* a page load over any stored cookies, and the server started
Init == InitCookie /\ InitTabs /\ InitRelay /\ InitObserved

\* a first visit, and the server started
InitFresh == InitCookieFresh /\ InitTabs /\ InitRelay /\ InitObserved

SpecCookie == Init /\ [][NextCookie]_vars

SpecTabs == InitFresh /\ [][NextTabs]_vars

SpecNav == InitFresh /\ [][NextNav]_vars

SpecRelay == InitFresh /\ [][NextRelay]_vars

SpecSession == Init /\ [][NextSession]_vars

SpecTabOps == InitFresh /\ [][NextTabOps]_vars

\* navigations, their callbacks, and the close button of the tabs
NextLive ==
    \/ Len(navs) < MaxRetryNavs /\ \E u \in Urls : NavigateTo(u) /\ UNCHANGED <<cookieVars, relayVars, view, last>>
    \/ \E t \in TabIds : CloseTab(t) /\ UNCHANGED <<cookieVars, relayVars, view, last>>
    \/ \E n \in NavIds, ok \in BOOLEAN : RegisterSWDone(n, ok) /\ UNCHANGED <<cookieVars, relayVars, view, last>>
    \/ \E n \in NavIds, ok \in BOOLEAN : EstablishConnectionDone(n, ok) /\ UNCHANGED <<cookieVars, relayVars, view, last>>
    \/ \E n \in NavIds : RetryTimer(n) /\ UNCHANGED <<cookieVars, relayVars, view, last>>
    \/ \E t \in TabIds, d \in DocTitles : IframeLoad(t, d) /\ UNCHANGED <<cookieVars, relayVars, view, last>>
    \/ \E t \in TabIds : IframeError(t) /\ UNCHANGED <<cookieVars, relayVars, view, last>>
    \/ \E n \in NavIds : LoadTimeout(n) /\ UNCHANGED <<cookieVars, relayVars, view, last>>
    \/ \E n \in NavIds : ConnectionMonitor(n) /\ UNCHANGED <<cookieVars, relayVars, view, last>>

\* every promise a navigation awaits is settled and every timer it sets fires
Settles ==
    \A n \in NavIds :
        /\ WF_vars(\E ok \in BOOLEAN : RegisterSWDone(n, ok) /\ UNCHANGED <<cookieVars, relayVars, view, last>>)
        /\ WF_vars(\E ok \in BOOLEAN : EstablishConnectionDone(n, ok) /\ UNCHANGED <<cookieVars, relayVars, view, last>>)
        /\ WF_vars(RetryTimer(n) /\ UNCHANGED <<cookieVars, relayVars, view, last>>)

\* page loads over a local storage that may be missing, hold text that is
\* not JSON, refuse to be read, or hold an earlier save
InitStorage ==
    /\ storage \in {NoItem, InvalidJSON, Unreadable, JSONText([d \in {"a.com"} |-> EmptyObj])}
    /\ cookieStore = LoadCookies(storage)
    /\ now = 0
    /\ ret = Void
    /\ saveFailed = FALSE
    /\ InitTabs /\ InitRelay /\ InitObserved

\* the cookie manager over a local storage that may refuse any write
NextStorage ==
    \/ \E d \in Domains, n \in Names, v \in Values, o \in SessionOptions, ok \in BOOLEAN :
          SetCookie(d, n, v, o, ok) /\ UNCHANGED <<tabVars, relayVars, view, last>>
    \/ \E d \in Domains, n \in Names :
          GetCookie(d, n, TRUE) /\ UNCHANGED <<tabVars, relayVars, view, last>>
    \/ \E d \in Domains, n \in Names, ok \in BOOLEAN :
          DeleteCookie(d, n, ok) /\ UNCHANGED <<tabVars, relayVars, view, last>>
    \/ \E ok \in BOOLEAN : ClearAllCookies(ok) /\ UNCHANGED <<tabVars, relayVars, view, last>>
    \/ NewCookieManager /\ UNCHANGED <<tabVars, relayVars, view, last>>

SpecStorage == InitStorage /\ [][NextStorage]_vars

SpecLive == InitFresh /\ [][NextLive]_vars /\ Settles

(***************************************************************************)
(* Claims about the cookie manager                                         *)
(***************************************************************************)

\* the attributes a store holds for (domain, name): a set with at most one element
AttrsOf(store, d, n) ==
    IF d \in DOMAIN store /\ n \in DOMAIN store[d].cookies
    THEN LET c == store[d].cookies[n]
         IN {[value |-> c.value, path |-> c.path, expires |-> c.expires,
              secure |-> c.secure, httpOnly |-> c.httpOnly, sameSite |-> c.sameSite]}
    ELSE {}

\* C1: cookie persistence is a faithful round trip: a new CookieManager
\* constructed from local storage holds, for every domain and cookie name,
\* the attributes the first manager holds in memory (whenever the last
\* write to local storage went through).
C1_RoundTrip ==
    ~saveFailed =>
        \A d \in Domains, n \in Names :
            AttrsOf(LoadCookies(storage), d, n) = AttrsOf(cookieStore, d, n)


(***************************************************************************)
(* Claims about the tab manager and navigation                             *)
(***************************************************************************)

\* C2: goBack from an index greater than 0 followed by goForward, each run
\* to completion with service-worker registration succeeding and nothing in
\* between, leaves the tab's history list and history index as they were
\* before goBack.
C2_BackForwardRoundTrip ==
    rt.phase = "done" =>
        /\ history[rt.tab] = rt.hist
        /\ currentHistoryIndex[rt.tab] = rt.idx

\* C3: in every reachable state the key sets of tabs, history and
\* currentHistoryIndex are identical.
C3_SameKeys ==
    /\ DOMAIN tabs = DOMAIN history
    /\ DOMAIN history = DOMAIN currentHistoryIndex

\* C4: for every tab the history index i satisfies -1 <= i <= length - 1,
\* with i = -1 exactly when the history list is empty.
C4_IndexInRange ==
    \A t \in DOMAIN tabs \cup DOMAIN history \cup DOMAIN currentHistoryIndex :
        /\ t \in DOMAIN history /\ t \in DOMAIN currentHistoryIndex
        /\ currentHistoryIndex[t] >= -1
        /\ currentHistoryIndex[t] <= Len(history[t]) - 1
        /\ (currentHistoryIndex[t] = -1) <=> (history[t] = << >>)

\* a goBack has moved the index of a tab with two entries to 0 and its
\* navigation is still pending
C4_Witness ==
    \E t \in DOMAIN tabs, n \in 1..Len(navs) :
        /\ t \in DOMAIN history
        /\ Len(history[t]) >= 2
        /\ currentHistoryIndex[t] = 0
        /\ navs[n].target = t /\ navs[n].pc = "awaitSW"

\* C5: within one navigateToUrl call the retry counter shared by the
\* connection retry, the iframe error reload, the load-timeout reload and the
\* slow-loading monitor never exceeds 3, and at most 3 retries or reloads are
\* performed for that navigation.
C5_RetriesBounded ==
    \A n \in 1..Len(navs) :
        /\ navs[n].connectionRetries <= maxRetries
        /\ navs[n].reloads <= maxRetries

\* a call that has used its three retries (one of them a connection retry)
\* and was then refused a reload by the load timeout
C5_Witness ==
    \E n \in 1..Len(navs) :
        /\ navs[n].connectionRetries = maxRetries
        /\ navs[n].attempts >= 2
        /\ navs[n].pc = "srcSet"
        /\ errorText = "Page took too long to load. Please try again."

\* ---- claims about the server ----

\* a request to /ads/proxy has been answered
ProxyAnswered == req.event = "request" /\ req.url = <<"/", "a", "d", "s", "/", "p", "r", "o", "x", "y">>

\* the hosts the specification calls private
PrivateHost(host) ==
    CASE host.kind = "domain" ->
            ToLowerCase(host.name) = <<"l", "o", "c", "a", "l", "h", "o", "s", "t">> \/ EndsWith(ToLowerCase(host.name), <<".", "l", "o", "c", "a", "l", "h", "o", "s", "t">>)
      [] host.kind = "ipv4" ->
            \/ host.octets[1] \in {127, 10}
            \/ host.octets[1] = 172 /\ host.octets[2] \in 16..31
            \/ host.octets[1] = 192 /\ host.octets[2] = 168
      [] OTHER ->
            \/ ToLowerCase(host.name) = <<":", ":", "1">>
            \/ StartsWith(ToLowerCase(host.name), <<"f", "e", "8", "0", ":">>)
            \/ StartsWith(ToLowerCase(host.name), <<"f", "c">>)
            \/ StartsWith(ToLowerCase(host.name), <<"f", "d">>)

HttpScheme(u) == ToLowerCase(u.scheme) \in {<<"h", "t", "t", "p">>, <<"h", "t", "t", "p", "s">>}

\* C6: a request to /ads/proxy for an http(s) URL whose host is localhost, a
\* subdomain of .localhost, an IPv4 address of 127/8, 10/8, 172.16/12 or
\* 192.168/16, or an IPv6 loopback, link-local or unique-local address is
\* answered 403 'Forbidden host' and no upstream fetch is issued.
C6_PrivateHostsBlocked ==
    (ProxyAnswered /\ req.u.kind = "url" /\ HttpScheme(req.u) /\ PrivateHost(req.u.host))
        => (reply.status = 403 /\ reply.body = <<"F", "o", "r", "b", "i", "d", "d", "e", "n", " ", "h", "o", "s", "t">> /\ ~fetched)

\* C7: /ads/proxy answers 400 for a missing or empty u, else 400 for an
\* unparseable u, else 400 for a scheme other than http(s), else 403 for a
\* blocked host; none of the four issues a fetch.
C7_ValidationOrder ==
    ProxyAnswered =>
        IF req.u.kind \in {"missing", "empty"} THEN reply.status = 400 /\ ~fetched
        ELSE IF req.u.kind = "garbage" THEN reply.status = 400 /\ ~fetched
        ELSE IF ~HttpScheme(req.u) THEN reply.status = 400 /\ ~fetched
        ELSE IF IsBlockedHost(Hostname(req.u.host)) THEN reply.status = 403 /\ ~fetched
        ELSE TRUE

\* a non-http URL for a blocked host was refused for its scheme
C7_Witness ==
    /\ ProxyAnswered
    /\ req.u = UrlU(<<"f", "t", "p">>, DomainHost(<<"l", "o", "c", "a", "l", "h", "o", "s", "t">>))
    /\ reply.status = 400 /\ reply.body = <<"U", "n", "s", "u", "p", "p", "o", "r", "t", "e", "d", " ", "p", "r", "o", "t", "o", "c", "o", "l">> /\ ~fetched

\* C8: a response to a request whose URL does not start with /ads/ carries
\* Cross-Origin-Opener-Policy: same-origin and Cross-Origin-Embedder-Policy:
\* require-corp; for a URL that starts with /ads/ the request listener sets neither.
C8_IsolationHeaders ==
    req.event = "request" =>
        IF ~(Len(req.url) >= 5 /\ SubSeq(req.url, 1, 5) = <<"/", "a", "d", "s", "/">>)
        THEN /\ <<"c", "r", "o", "s", "s", "-", "o", "r", "i", "g", "i", "n", "-", "o", "p", "e", "n", "e", "r", "-", "p", "o", "l", "i", "c", "y">> \in DOMAIN reply.headers
             /\ reply.headers[<<"c", "r", "o", "s", "s", "-", "o", "r", "i", "g", "i", "n", "-", "o", "p", "e", "n", "e", "r", "-", "p", "o", "l", "i", "c", "y">>] = <<"s", "a", "m", "e", "-", "o", "r", "i", "g", "i", "n">>
             /\ <<"c", "r", "o", "s", "s", "-", "o", "r", "i", "g", "i", "n", "-", "e", "m", "b", "e", "d", "d", "e", "r", "-", "p", "o", "l", "i", "c", "y">> \in DOMAIN reply.headers
             /\ reply.headers[<<"c", "r", "o", "s", "s", "-", "o", "r", "i", "g", "i", "n", "-", "e", "m", "b", "e", "d", "d", "e", "r", "-", "p", "o", "l", "i", "c", "y">>] = <<"r", "e", "q", "u", "i", "r", "e", "-", "c", "o", "r", "p">>
        ELSE /\ <<"c", "r", "o", "s", "s", "-", "o", "r", "i", "g", "i", "n", "-", "o", "p", "e", "n", "e", "r", "-", "p", "o", "l", "i", "c", "y">> \notin DOMAIN reply.hook
             /\ <<"c", "r", "o", "s", "s", "-", "o", "r", "i", "g", "i", "n", "-", "e", "m", "b", "e", "d", "d", "e", "r", "-", "p", "o", "l", "i", "c", "y">> \notin DOMAIN reply.hook

\* a URL that merely contains /ads/ was answered with both headers
C8_Witness ==
    /\ req.event = "request" /\ req.url = <<"/", "x", "/", "a", "d", "s", "/">>
    /\ <<"c", "r", "o", "s", "s", "-", "o", "r", "i", "g", "i", "n", "-", "o", "p", "e", "n", "e", "r", "-", "p", "o", "l", "i", "c", "y">> \in DOMAIN reply.headers
    /\ <<"c", "r", "o", "s", "s", "-", "o", "r", "i", "g", "i", "n", "-", "e", "m", "b", "e", "d", "d", "e", "r", "-", "p", "o", "l", "i", "c", "y">> \in DOMAIN reply.headers

\* a relayed reply was sent for an upstream response
Relayed == ProxyAnswered /\ upstream # NoUpstream

NeverCopied == {<<"c", "o", "n", "t", "e", "n", "t", "-", "s", "e", "c", "u", "r", "i", "t", "y", "-", "p", "o", "l", "i", "c", "y">>, <<"x", "-", "f", "r", "a", "m", "e", "-", "o", "p", "t", "i", "o", "n", "s">>, <<"c", "o", "n", "t", "e", "n", "t", "-", "l", "e", "n", "g", "t", "h">>}

UpstreamType == HeaderGet(upstream.headers, <<"c", "o", "n", "t", "e", "n", "t", "-", "t", "y", "p", "e">>)

\* the header the relay sets itself after the copy
Overridden(k) ==
    IF Includes(UpstreamType, <<"t", "e", "x", "t", "/", "h", "t", "m", "l">>) \/ Includes(UpstreamType, <<"t", "e", "x", "t", "/", "c", "s", "s">>)
    THEN k = <<"c", "o", "n", "t", "e", "n", "t", "-", "t", "y", "p", "e">>
    ELSE k = <<"c", "a", "c", "h", "e", "-", "c", "o", "n", "t", "r", "o", "l">>

\* C9 as stated: a relayed reply has the upstream status and every upstream
\* header with its value, except Content-Security-Policy, X-Frame-Options and
\* Content-Length in any letter case, which it does not have.
C9_AllHeadersCopied ==
    Relayed =>
        /\ reply.status = upstream.status
        /\ \A i \in 1..Len(upstream.headers) :
              LET k == ToLowerCase(upstream.headers[i][1]) IN
              IF k \in NeverCopied THEN k \notin DOMAIN reply.headers
              ELSE k \in DOMAIN reply.headers /\ reply.headers[k] = upstream.headers[i][2]

\* C9: a relayed reply has the upstream status and every upstream header with
\* its value, except Content-Security-Policy, X-Frame-Options and
\* Content-Length in any letter case, which it does not have, and except the
\* header the relay sets itself: content-type ('text/html; charset=utf-8' or
\* 'text/css; charset=utf-8') for HTML and CSS, cache-control ('no-store') otherwise.
C9_HeadersCopied ==
    Relayed =>
        /\ reply.status = upstream.status
        /\ \A i \in 1..Len(upstream.headers) :
              LET k == ToLowerCase(upstream.headers[i][1]) IN
              IF k \in NeverCopied THEN k \notin DOMAIN reply.headers
              ELSE /\ k \in DOMAIN reply.headers
                   /\ ~Overridden(k) => reply.headers[k] = upstream.headers[i][2]
        /\ IF Includes(UpstreamType, <<"t", "e", "x", "t", "/", "h", "t", "m", "l">>)
           THEN reply.headers[<<"c", "o", "n", "t", "e", "n", "t", "-", "t", "y", "p", "e">>] = <<"t", "e", "x", "t", "/", "h", "t", "m", "l", ";", " ", "c", "h", "a", "r", "s", "e", "t", "=", "u", "t", "f", "-", "8">>
           ELSE IF Includes(UpstreamType, <<"t", "e", "x", "t", "/", "c", "s", "s">>)
           THEN reply.headers[<<"c", "o", "n", "t", "e", "n", "t", "-", "t", "y", "p", "e">>] = <<"t", "e", "x", "t", "/", "c", "s", "s", ";", " ", "c", "h", "a", "r", "s", "e", "t", "=", "u", "t", "f", "-", "8">>
           ELSE reply.headers[<<"c", "a", "c", "h", "e", "-", "c", "o", "n", "t", "r", "o", "l">>] = <<"n", "o", "-", "s", "t", "o", "r", "e">>

\* a 404 response with headers of all three skipped names in mixed case and
\* a cache-control of its own was relayed
C9_Witness ==
    /\ Relayed
    /\ upstream.status = 404 /\ reply.status = 404
    /\ \E i \in 1..Len(upstream.headers) : upstream.headers[i][1] = <<"C", "O", "N", "T", "E", "N", "T", "-", "L", "E", "N", "G", "T", "H">>
    /\ <<"c", "o", "n", "t", "e", "n", "t", "-", "t", "y", "p", "e">> \in DOMAIN reply.headers
    /\ <<"x", "-", "f", "r", "a", "m", "e", "-", "o", "p", "t", "i", "o", "n", "s">> \notin DOMAIN reply.headers

\* the attributes of the <a ...> tag of a document, as an HTML parser reads
\* them: name, quote and value
RECURSIVE ParseAttrsFrom(_, _)
ParseAttrsFrom(s, i) ==
    IF i > Len(s) \/ s[i] # " " THEN << >>
    ELSE LET eq == FirstOf(s, i + 1, {"="})
         IN  IF eq = 0 \/ eq + 1 > Len(s) THEN << >>
             ELSE LET close == FirstOf(s, eq + 2, {s[eq + 1]})
                  IN  IF close = 0 THEN << >>
                      ELSE <<[name |-> SubSeq(s, i + 1, eq - 1), q |-> s[eq + 1],
                              val |-> SubSeq(s, eq + 2, close - 1)]>>
                           \o ParseAttrsFrom(s, close + 1)

ParseAttrs(s) ==
    LET tag == IF Includes(s, <<"<", "a", " ">>)
               THEN CHOOSE i \in 1..Len(s) :
                       MatchAt(s, i, <<"<", "a", " ">>) /\ \A j \in 1..(i - 1) : ~MatchAt(s, j, <<"<", "a", " ">>)
               ELSE 0
    IN  IF tag = 0 THEN << >> ELSE ParseAttrsFrom(s, tag + 2)

UrlAttribute(name) == ToLowerCase(name) \in {<<"h", "r", "e", "f">>, <<"s", "r", "c">>, <<"a", "c", "t", "i", "o", "n">>, <<"p", "o", "s", "t", "e", "r">>}

LeftAlone(val) ==
    \E p \in {<<"d", "a", "t", "a", ":">>, <<"b", "l", "o", "b", ":">>, <<"m", "a", "i", "l", "t", "o", ":">>, <<"j", "a", "v", "a", "s", "c", "r", "i", "p", "t", ":">>} : StartsWith(val, p)

\* an HTML document was relayed
HtmlRelayed == Relayed /\ upstream.doc # NoDoc

\* C10: in a relayed HTML document every quoted href, src, action or poster
\* attribute whose value starts with none of data:, blob:, mailto: and
\* javascript: has the value '/ads/proxy?u=' followed by the encoded absolute
\* form of the upstream value, and a value with one of the prefixes is the
\* upstream value.
C10_AttributesRewritten ==
    HtmlRelayed =>
        LET given == upstream.doc.attrs
            out == ParseAttrs(reply.body)
        IN  /\ Len(out) = Len(given)
            /\ \A i \in 1..Len(given) :
                  UrlAttribute(given[i].name) =>
                      IF LeftAlone(given[i].val) THEN out[i].val = given[i].val
                      ELSE Resolve(given[i].val).ok =>
                              out[i].val = <<"/", "a", "d", "s", "/", "p", "r", "o", "x", "y", "?", "u", "=">>
                                           \o EncodeURIComponent(Resolve(given[i].val).abs)

\* the last six characters of a URL are /wisp/
WispUrl(url) == Len(url) >= 6 /\ SubSeq(url, Len(url) - 5, Len(url)) = <<"/", "w", "i", "s", "p", "/">>

\* C11: an upgrade request is routed to wisp exactly when its URL ends with
\* '/wisp/'; for every other upgrade request the socket is ended and nothing
\* is routed to wisp.
C11_UpgradeRouting ==
    req.event = "upgrade" =>
        /\ conn \in {"wisp", "ended"}
        /\ conn = "wisp" <=> WispUrl(req.url)

\* an upgrade request whose URL has /wisp/ before a query string was ended
C11_Witness ==
    /\ req.event = "upgrade"
    /\ req.url = <<"/", "w", "i", "s", "p", "/", "?", "a", "=", "1">>
    /\ conn = "ended"

\* C12: on a manager loaded from local storage, setCookie, getCookie and
\* deleteCookie on a domain that was in storage complete without throwing.
C12_LoadedStoreWorks == ret.kind # "throw"

\* the store of a manager holds a cookie (d, n) that has no expiry
LiveCookie(d, n) ==
    /\ d \in DOMAIN cookieStore
    /\ cookieStore[d].kind = "Map"
    /\ n \in DOMAIN cookieStore[d].cookies
    /\ cookieStore[d].cookies[n].expires = NoDate

\* the step overwrites, deletes or clears cookie (d, n), or builds a new manager;
\* a Set-Cookie header for the name is a setCookie for it
Replaces(d, n) ==
    \/ \E v \in Values, o \in OptionSet, ok \in BOOLEAN : SetCookie(d, n, v, o, ok)
    \/ \E ok \in BOOLEAN : DeleteCookie(d, n, ok)
    \/ \E ok \in BOOLEAN : ClearAllCookies(ok)
    \/ \E input \in HeaderInputs, oks \in BOOLEAN \X BOOLEAN :
          /\ \E i \in 1..Len(input.list) : TrimToken(input.list[i][1][1]) = n
          /\ ParseSetCookieHeaders(d, input, oks)
    \/ NewCookieManager

\* C13: a cookie set without expiry stays as it is over every step that is
\* not a setCookie or deleteCookie for its domain and name nor
\* clearAllCookies, getCookie returns its value, and a setCookie for the same
\* domain and name stores the new value and attributes.
C13_ValueKept ==
    [][\A d \in Domains, n \in Names :
          /\ (LiveCookie(d, n)
                /\ ~(LiveCookie(d, n)' /\ cookieStore'[d].cookies[n] = cookieStore[d].cookies[n]))
                => Replaces(d, n)
          /\ \A ok \in BOOLEAN :
                (LiveCookie(d, n) /\ GetCookie(d, n, ok)) =>
                    ret' = Returned(cookieStore[d].cookies[n].value)
          /\ \A v \in Values, o \in OptionSet, ok \in BOOLEAN :
                (LiveCookie(d, n) /\ SetCookie(d, n, v, o, ok)) =>
                    /\ cookieStore'[d].cookies[n].value = v
                    /\ cookieStore'[d].cookies[n].expires = o.expires
                    /\ cookieStore'[d].cookies[n].secure = o.secure
                    /\ cookieStore'[d].cookies[n].httpOnly = o.httpOnly
                    /\ cookieStore'[d].cookies[n].path = (IF o.path = Undef THEN "/" ELSE o.path)
                    /\ cookieStore'[d].cookies[n].sameSite =
                          (IF o.sameSite = Undef THEN "Lax" ELSE o.sameSite)]_vars

\* after the clock has advanced, getCookie returned the value of a cookie
\* without expiry that is still in the store
C13_Witness ==
    /\ now >= 1
    /\ \E d \in Domains, n \in Names :
          LiveCookie(d, n) /\ ret = Returned(cookieStore[d].cookies[n].value)

\* what the three reads give for a domain: getCookie for each name, and the
\* entries of getCookiesForDomain, which getCookieString joins
Reads(store, d) ==
    [get |-> [n \in Names |-> Lookup(store, d, n)], all |-> CookiesFor(store, d)]

\* the step is a setCookie, deleteCookie or parseSetCookieHeaders call with domain A
WritesTo(A) ==
    \/ \E n \in Names, v \in Values, o \in OptionSet, ok \in BOOLEAN : SetCookie(A, n, v, o, ok)
    \/ \E n \in Names, ok \in BOOLEAN : DeleteCookie(A, n, ok)
    \/ \E input \in HeaderInputs, oks \in BOOLEAN \X BOOLEAN :
          ParseSetCookieHeaders(A, input, oks)

\* C14: a setCookie, parseSetCookieHeaders or deleteCookie call with domain A
\* changes no result of getCookie, getCookiesForDomain or getCookieString
\* for a different domain B.
C14_DomainsIsolated ==
    [][\A A \in Domains, B \in Domains :
          (A # B /\ Reads(cookieStore, B)' # Reads(cookieStore, B)) => ~WritesTo(A)]_vars

\* a header naming Domain=b.com was parsed for a.com and is stored under
\* a.com, while b.com holds another value for the same name
C14_Witness ==
    /\ ret = Void
    /\ LiveCookie("a.com", "sid") /\ LiveCookie("b.com", "sid")
    /\ cookieStore["a.com"].cookies["sid"].path = "/p"
    /\ cookieStore["a.com"].cookies["sid"].value = "v2"
    /\ cookieStore["b.com"].cookies["sid"].value = "v1"

(***************************************************************************)
(* Claims about the tab strip                                              *)
(***************************************************************************)
Size(m) == Cardinality(DOMAIN m)

\* the last operation was a closeTab that found several tabs and closed one
Closed == /\ last.op = "closeTab"
          /\ Size(last.pre.tabs) >= 2
          /\ last.arg \in DOMAIN last.pre.tabs

\* the entries of tab t are what they were before the last operation
Untouched(t) ==
    /\ t \in DOMAIN tabs /\ tabs[t] = last.pre.tabs[t]
    /\ t \in DOMAIN history /\ history[t] = last.pre.history[t]
    /\ t \in DOMAIN currentHistoryIndex
    /\ currentHistoryIndex[t] = last.pre.currentHistoryIndex[t]

\* C15: tabs always holds at least one tab, and a closeTab call made while
\* tabs holds exactly one tab changes no state.
C15_LastTabKept ==
    /\ Size(tabs) >= 1
    /\ (last.op = "closeTab" /\ Size(last.pre.tabs) = 1) => Snapshot = last.pre

\* closeTab was called on the only tab left, a created one
C15_Witness ==
    /\ last.op = "closeTab" /\ last.arg = "tab-1"
    /\ DOMAIN last.pre.tabs = {"tab-1"}

\* C16: after any sequence of createTab, switchToTab, closeTab and
\* navigations, currentTabId is a key of tabs.
C16_CurrentIsATab == currentTabId \in DOMAIN tabs

\* the active tab was closed while a navigation was under way
C16_Witness ==
    /\ Closed /\ last.arg = last.pre.currentTabId
    /\ navs # << >>

\* the position of tab t in the insertion order before the last operation
PlaceOf(t) == CHOOSE i \in 1..Len(last.pre.tabOrder) : last.pre.tabOrder[i] = t

\* C17: closing the active tab makes the first remaining tab in insertion
\* order the current tab; closing another tab leaves currentTabId unchanged;
\* in both cases the entries of every other tab are unchanged.
C17_CloseEffect ==
    Closed =>
        /\ last.arg \notin DOMAIN tabs
        /\ IF last.pre.currentTabId = last.arg
           THEN /\ currentTabId \in DOMAIN last.pre.tabs \ {last.arg}
                /\ \A t \in DOMAIN last.pre.tabs \ {last.arg} :
                      PlaceOf(currentTabId) <= PlaceOf(t)
           ELSE currentTabId = last.pre.currentTabId
        /\ \A t \in DOMAIN last.pre.tabs \ {last.arg} : Untouched(t)

\* the active tab, the last of three, was closed: the first tab is current,
\* not the neighbour
C17_Witness ==
    /\ Closed /\ last.arg = "tab-2" /\ last.pre.currentTabId = "tab-2"
    /\ last.pre.tabOrder = <<"home", "tab-1", "tab-2">>
    /\ currentTabId = "home"

\* C18: the identifier createTab returns differs from the identifier of
\* every tab created earlier, closed or not, and from 'home'.
C18_IdsNeverReused == last.made # "" => last.made \notin last.seen \cup {"home"}

\* a tab was created after an earlier one had been closed
C18_Witness ==
    /\ last.made = "tab-2"
    /\ "tab-1" \in last.seen /\ "tab-1" \notin DOMAIN last.pre.tabs

\* C19: createTab adds exactly one entry to tabs, with an empty history
\* list and history index -1, makes the new tab current, and leaves the
\* entries of the existing tabs unchanged.
C19_CreateEffect ==
    last.made # "" =>
        /\ last.made \notin DOMAIN last.pre.tabs
        /\ DOMAIN tabs = DOMAIN last.pre.tabs \cup {last.made}
        /\ history[last.made] = << >>
        /\ currentHistoryIndex[last.made] = -1
        /\ currentTabId = last.made
        /\ \A t \in DOMAIN last.pre.tabs : Untouched(t)

\* a tab was created next to a tab that had been navigated
C19_Witness ==
    /\ last.op = "createTab" /\ last.made = "tab-2"
    /\ "tab-1" \in DOMAIN tabs /\ tabs["tab-1"].url # NullUrl
    /\ history["tab-1"] # << >>

\* C20: navigateTo issued while the home tab is current creates a new tab
\* and navigates that one; whenever the home tab exists its URL is null,
\* its history list is empty and its history index is -1.
C20_HomeNeverNavigated ==
    /\ "home" \in DOMAIN tabs =>
          /\ tabs["home"].url = NullUrl
          /\ "home" \in DOMAIN history /\ history["home"] = << >>
          /\ "home" \in DOMAIN currentHistoryIndex /\ currentHistoryIndex["home"] = -1
    /\ (last.op = "navigateTo" /\ last.pre.currentTabId = "home") =>
          /\ last.made # "" /\ last.made \notin DOMAIN last.pre.tabs
          /\ last.made \in DOMAIN tabs
          /\ navs = Append(last.pre.navs, NewNav(last.made, last.arg))
          /\ \A n \in 1..Len(navs) : navs[n].target # "home"

\* navigateTo was issued from the home tab a second time
C20_Witness ==
    /\ last.op = "navigateTo" /\ last.pre.currentTabId = "home"
    /\ last.made = "tab-2" /\ "tab-1" \in DOMAIN tabs

(***************************************************************************)
(* Claims about history and navigation                                     *)
(***************************************************************************)
\* C21: addToHistory(tab, url) on a tab whose history index is i leaves the
\* old entries 0..i followed by url, and the index i + 1.
C21_AddToHistory ==
    \A t \in DOMAIN history, u \in Urls :
        LET i == currentHistoryIndex[t]
            after == AddToHistory([h |-> history, i |-> currentHistoryIndex], t, u)
        IN  /\ after.h[t] = Append(SubSeq(history[t], 1, i + 1), u)
            /\ after.i[t] = i + 1

\* navigateToUrl has run addToHistory at index 0 of a list of two entries:
\* the entry after index 0 is gone, the URL is appended, the index is 1
C21_Witness ==
    /\ rt.phase = "back" /\ rt.idx = 1 /\ Len(rt.hist) = 2
    /\ rt.hist[1] # rt.hist[2]
    /\ navs[rt.nav].pc = "connecting"
    /\ history[rt.tab] = <<rt.hist[1], rt.hist[1]>>
    /\ currentHistoryIndex[rt.tab] = 1

\* the history index of the current tab before the last operation
IndexBefore == last.pre.currentHistoryIndex[last.pre.currentTabId]

\* C22: goBack on a tab whose history index is 0 or -1, and goForward on a
\* tab whose index is the last position of its list, change no state and
\* start no navigation.
C22_NoOpAtTheEnds ==
    /\ (last.op = "goBack" /\ IndexBefore \in {0, -1}) => Snapshot = last.pre
    /\ (last.op = "goForward"
          /\ IndexBefore = Len(last.pre.history[last.pre.currentTabId]) - 1)
          => Snapshot = last.pre

\* goBack was called on a navigated tab standing at its first entry
C22_Witness ==
    /\ last.op = "goBack" /\ IndexBefore = 0
    /\ last.pre.currentTabId # "home"
    /\ Len(history[currentTabId]) = 1

\* the navigateToUrl calls whose registerSW() was rejected in the last step
FailedNow ==
    {n \in 1..Len(last.pre.navs) :
        last.op = "registerSW" /\ last.pre.navs[n].pc = "awaitSW" /\ navs[n].pc = "swFailed"}

\* C23: if service-worker registration fails, navigateToUrl shows 'Failed to
\* register service worker.' and returns: history list, history index, URL,
\* title and loading flag of the target tab are unchanged and no iframe
\* source is set.
C23_RegistrationFailure ==
    /\ FailedNow # {} =>
          /\ errorText = "Failed to register service worker."
          /\ tabs = last.pre.tabs
          /\ history = last.pre.history
          /\ currentHistoryIndex = last.pre.currentHistoryIndex
    /\ \A n \in 1..Len(navs) :
          navs[n].pc = "swFailed" => navs[n].attempts = 0 /\ ~navs[n].listening

\* registration failed for a navigation whose target tab is still open
C23_Witness ==
    \E n \in FailedNow :
        /\ navs[n].target \in DOMAIN tabs
        /\ history[navs[n].target] = << >>
        /\ ~tabs[navs[n].target].src

\* C24: if service-worker registration fails during a goBack, the history
\* index of the tab is the same after the call as before it (rt holds the
\* tab and the index goBack found).
C24_IndexKeptOnFailure ==
    [][\A n \in NavIds :
          (rt.phase = "back" /\ rt.nav = n /\ RegisterSWDone(n, FALSE))
              => currentHistoryIndex'[rt.tab] = rt.idx]_vars

\* C25: refresh on a tab that has a URL reloads it and leaves the tab's
\* history list and history index as they were before the call, through
\* the completion of the navigateToUrl it starts; refresh on a tab without a
\* URL changes no state.
C25_RefreshKeepsHistory ==
    [][/\ (last.op = "refresh" /\ last.pre.tabs[last.pre.currentTabId].url = NullUrl)
            => Snapshot = last.pre
       /\ (/\ last.op = "refresh"
           /\ navs = Append(last.pre.navs,
                             NewNav(last.pre.currentTabId,
                                    last.pre.tabs[last.pre.currentTabId].url))
           /\ RegisterSWDone(Len(navs), TRUE))
            => /\ history'[last.pre.currentTabId] = last.pre.history[last.pre.currentTabId]
               /\ currentHistoryIndex'[last.pre.currentTabId] =
                      last.pre.currentHistoryIndex[last.pre.currentTabId]]_vars

\* the navigateToUrl calls that the last step started
StartedNow == (Len(last.pre.navs) + 1)..Len(navs)

\* the navigateToUrl calls that the last step resumed
ResumedNow == {n \in 1..Len(last.pre.navs) : navs[n] # last.pre.navs[n]}

\* every tab but t has the entries it had before the last step
OnlyTouched(t) ==
    /\ DOMAIN tabs = DOMAIN last.pre.tabs
    /\ \A x \in DOMAIN last.pre.tabs \ {t} : Untouched(x)
    /\ \A x \in DOMAIN last.pre.history \ {t} :
          x \in DOMAIN history /\ history[x] = last.pre.history[x]

\* C26: the target of a navigation is the tab that was current (or was made
\* for it) when navigateToUrl was called; creating, switching or closing
\* tabs while it is pending never changes it, and every history, URL, title
\* and loading update of the navigation is applied to that tab only.
C26_TargetFixed ==
    /\ \A n \in StartedNow :
          navs[n].target = IF last.made # "" THEN last.made ELSE last.pre.currentTabId
    /\ \A n \in 1..Len(last.pre.navs) :
          navs[n].target = last.pre.navs[n].target /\ navs[n].url = last.pre.navs[n].url
    /\ last.op \in {"registerSW", "establishConnection"} =>
          \A n \in ResumedNow : OnlyTouched(navs[n].target)
    /\ last.op \in {"load", "urlChange"} =>
          /\ OnlyTouched(last.arg)
          /\ \A n \in ResumedNow : navs[n].target = last.arg

\* the navigation that opened tab-1 resumed after the user had opened
\* tab-2: its updates are on tab-1
C26_Witness ==
    /\ last.op = "registerSW" /\ 1 \in ResumedNow
    /\ navs[1].target = "tab-1" /\ navs[1].pc = "connecting"
    /\ currentTabId = "tab-2"
    /\ tabs["tab-1"].loading /\ history["tab-1"] # << >>
    /\ history["tab-2"] = << >>

\* C27: one urlChange message posted by a tab's iframe adds exactly one
\* entry to that tab's history, however many navigations were performed in
\* the tab before.
C27_OneEntryPerMessage ==
    [][\A t \in TabIds, u \in Urls, d \in DocTitles :
          UrlChange(t, u, d) =>
              history'[t] = Append(SubSeq(history[t], 1, currentHistoryIndex[t] + 1), u)]_vars

\* navigateToUrl call n has passed await registerSW()
Registered(n) == n \in 1..Len(navs) /\ navs[n].pc \notin {"awaitSW", "swFailed"}

\* call n has set the iframe's source, or has shown the connection error
Concluded(n) == n \in 1..Len(navs) /\ navs[n].pc \in {"srcSet", "failed"}

\* C28: establishConnection is attempted at most 4 times for one
\* navigation and a navigation that gives up shows 'Connection failed.
\* Please try again.'; on every execution a navigation that passed
\* service-worker registration eventually sets the iframe's source or shows
\* that error.
C28_ConnectsOrGivesUp ==
    /\ [](\A n \in 1..Len(navs) : navs[n].attempts <= maxRetries + 1)
    /\ [][\A n \in 1..Len(navs) :
             (navs[n].pc # "failed" /\ navs'[n].pc = "failed")
                 => errorText' = "Connection failed. Please try again."]_vars
    /\ \A n \in NavIds : Registered(n) ~> Concluded(n)

(***************************************************************************)
(* Claims about storage failures and the rewriting passes                  *)
(***************************************************************************)
\* the store has a Map, or nothing, for the domain
Usable(d) == d \notin DOMAIN cookieStore \/ cookieStore[d].kind = "Map"

\* C29: constructing a CookieManager over text that is not JSON, or over a
\* local storage that throws when read, completes without throwing and
\* gives an empty store; a failed write in saveCookies leaves the in-memory
\* store as modified and does not throw to the caller.
C29_StorageFailures ==
    [][/\ (storage.kind \in {"invalid", "throws"} /\ NewCookieManager)
            => cookieStore' = EmptyObj /\ ret'.kind # "throw"
       /\ \A d \in Domains, n \in Names :
            /\ \A v \in Values, o \in SessionOptions :
                  (Usable(d) /\ SetCookie(d, n, v, o, FALSE))
                      => /\ Lookup(cookieStore', d, n) = Returned(v)
                         /\ ret' = Void /\ storage' = storage
            /\ (Usable(d) /\ DeleteCookie(d, n, FALSE))
                  => /\ Lookup(cookieStore', d, n) = Null
                     /\ ret' = Void /\ storage' = storage
       /\ ClearAllCookies(FALSE)
            => cookieStore' = EmptyObj /\ ret' = Void /\ storage' = storage]_vars

\* a manager built over unreadable storage holds a cookie whose save failed
C29_Witness ==
    /\ storage = Unreadable /\ saveFailed /\ ret = Void
    /\ Lookup(cookieStore, "a.com", "sid") = Returned("v1")

\* the positions of a text at which the relay's prefix stands
ProxPrefixes(s) == {i \in 1..Len(s) : MatchAt(s, i, <<"/", "a", "d", "s", "/", "p", "r", "o", "x", "y", "?", "u", "=">>)}

\* C30: each URL reference of a relayed HTML document is routed through
\* the relay at most once: the url() pass does not rewrite what the
\* attribute pass produced, so no attribute value of the output holds the
\* prefix '/ads/proxy?u=' more than once.
C30_RewrittenOnce ==
    HtmlRelayed =>
        LET out == ParseAttrs(reply.body)
        IN  \A i \in 1..Len(out) : Cardinality(ProxPrefixes(out[i].val)) <= 1

====
